---- MODULE Spec2Model ----
(***************************************************************************)
(* Pocket -> Omnivore importer (PocketToOmnivoreImporter with URL          *)
(* checking, CsvParser, TagProcessor).                                      *)
(*                                                                         *)
(* Strings are sequences of one-character strings, so that trim, split and *)
(* the regular expressions of the code are computed, not assumed.  A       *)
(* message built by a template literal is the concatenation of its pieces; *)
(* a literal piece is kept as one element ("Row ", ": Empty URL found").   *)
(***************************************************************************)
EXTENDS Integers, Sequences, FiniteSets, TLC

VARIABLES
    rows,            \* the parsed CSV rows handed to processAllRows
    unreadUntagged,  \* this.options.unreadUntagged
    pc,              \* where importFromCsv/processAllRows stands
    index,           \* loop index of processAllRows (0-based)
    stats,           \* the statistics object of processAllRows
    cur,             \* locals of processRow kept across its awaits
    uuidCount,       \* number of uuidv4() values drawn so far
    returned,        \* what importFromCsv returned (a sequence of 0 or 1 stats)
    thrown,          \* what importFromCsv threw (a sequence of 0 or 1 messages)
    log,             \* Logger calls other than updateProgress, in order
    progress,        \* Logger.updateProgress calls, in order
    trace,           \* the operations performed, in order: [op, row]
    results,         \* results[i] is what processRow returned for row i
    probes,          \* probes[i] is what checkUrlAlive resolved to for row i
    requests,        \* the save requests issued: [row, params]
    call,            \* one application of a function of the code: [fn, ...]
    req,             \* one call of checkUrlAlive: its request and its promise
    runs             \* a run of the monolithic script and a run of the importer
                     \* without URL checking, over the same rows

vars == <<rows, unreadUntagged, pc, index, stats, cur, uuidCount, returned,
          thrown, log, progress, trace, results, probes, requests, call, req,
          runs>>

-----------------------------------------------------------------------------
(* Bounds of the model *)

MaxRows == 3

\* the largest number of spaces put before and after a field of a raw row
MaxPad == 1

\* the largest length of a generated time_added text
MaxTimeLen == 3

\* the largest length of a generated tags text
MaxTagLen == 4

\* the largest number of rows of a run that is followed to its end
MaxLiveRows == 2

\* the largest number of command line arguments
MaxArgs == 3

\* the largest number of rows given to the two importers that are compared
MaxCompared == 2

-----------------------------------------------------------------------------
(* Strings *)

Str_archive == <<"a", "r", "c", "h", "i", "v", "e">>
Str_unread == <<"u", "n", "r", "e", "a", "d">>

DigitChars == {"0", "1", "2", "3", "4", "5", "6", "7", "8", "9"}
AlphaChars == {"a", "b", "c", "d", "e", "f", "g", "h", "i", "j", "k", "l", "m",
               "n", "o", "p", "q", "r", "s", "t", "u", "v", "w", "x", "y", "z"}

IsWhitespace(c) == c \in {" ", "\t", "\n"}

\* const x = e; F(x): the value of F at e, with e evaluated once
With(e, F(_)) == CHOOSE r \in {F(x) : x \in {e}} : TRUE

RECURSIVE TrimStart(_)
TrimStart(s) ==
    IF s # <<>> /\ IsWhitespace(Head(s)) THEN TrimStart(Tail(s)) ELSE s

RECURSIVE TrimEnd(_)
TrimEnd(s) ==
    IF s # <<>> /\ IsWhitespace(s[Len(s)])
    THEN TrimEnd(SubSeq(s, 1, Len(s) - 1))
    ELSE s

\* String.prototype.trim
Trim(s) == TrimEnd(TrimStart(s))

\* index of the first element of s that is in set cs, or 0
RECURSIVE IndexOfAny(_, _, _)
IndexOfAny(s, cs, from) ==
    IF from > Len(s) THEN 0
    ELSE IF s[from] \in cs THEN from
    ELSE IndexOfAny(s, cs, from + 1)

\* String.prototype.split(sep) for a one-character separator
RECURSIVE Split(_, _)
Split(s, sep) ==
    LET i == IndexOfAny(s, {sep}, 1)
    IN  IF i = 0 THEN <<s>>
        ELSE <<SubSeq(s, 1, i - 1)>> \o Split(SubSeq(s, i + 1, Len(s)), sep)

RECURSIVE SelectNonEmpty(_)
SelectNonEmpty(ss) ==
    IF ss = <<>> THEN <<>>
    ELSE IF Head(ss) # <<>> THEN <<Head(ss)>> \o SelectNonEmpty(Tail(ss))
    ELSE SelectNonEmpty(Tail(ss))

AllDigits(s) == s # <<>> /\ \A i \in 1..Len(s) : s[i] \in DigitChars

-----------------------------------------------------------------------------
(* new URL(url): the WHATWG parser without a base, for strings over letters, *)
(* digits, ":", "/", ".", "-", "|" and the space.  It fails when the string  *)
(* has no scheme, for a special scheme (http, https) when the host is empty  *)
(* or holds a forbidden host code point (the space), and for any other       *)
(* scheme when "//" follows it and the host holds a forbidden host code      *)
(* point.  A scheme that is not special needs no "//" and no host.           *)

SpecialSchemes == {<<"h", "t", "t", "p">>, <<"h", "t", "t", "p", "s">>}

SchemeEnd(url) == IndexOfAny(url, {":"}, 1)

HasScheme(url) ==
    With(SchemeEnd(url),
         LAMBDA colon :
            /\ colon > 1
            /\ url[1] \in AlphaChars
            /\ \A i \in 2..(colon - 1) :
                  url[i] \in AlphaChars \cup DigitChars \cup {"+", "-", "."})

RECURSIVE SkipSlashes(_)
SkipSlashes(s) ==
    IF s # <<>> /\ Head(s) \in {"/", "\\"} THEN SkipSlashes(Tail(s)) ELSE s

HostOf(afterScheme) ==
    With(SkipSlashes(afterScheme),
         LAMBDA rest :
            With(IndexOfAny(rest, {"/", "\\", "?", "#"}, 1),
                 LAMBDA stop : IF stop = 0 THEN rest ELSE SubSeq(rest, 1, stop - 1)))

\* the host of a URL whose scheme is not special, when "//" follows the scheme
OpaqueHostOf(afterScheme) ==
    With(SubSeq(afterScheme, 3, Len(afterScheme)),
         LAMBDA rest :
            With(IndexOfAny(rest, {"/", "?", "#"}, 1),
                 LAMBDA stop : IF stop = 0 THEN rest ELSE SubSeq(rest, 1, stop - 1)))

NoSpaceIn(host) == \A i \in 1..Len(host) : host[i] # " "

\* the rest of the URL after a scheme that ends at position colon
UrlRestParses(url, colon) ==
    With(SubSeq(url, colon + 1, Len(url)),
         LAMBDA rest :
            IF SubSeq(url, 1, colon - 1) \in SpecialSchemes
            THEN With(HostOf(rest), LAMBDA host : host # <<>> /\ NoSpaceIn(host))
            ELSE Len(rest) >= 2 /\ rest[1] = "/" /\ rest[2] = "/" =>
                    With(OpaqueHostOf(rest), LAMBDA host : NoSpaceIn(host)))

UrlParses(url) ==
    /\ HasScheme(url)
    /\ With(SchemeEnd(url), LAMBDA colon : UrlRestParses(url, colon))

-----------------------------------------------------------------------------
(* CsvParser.validateRow *)

\* (rowData.f || '')
FieldOrEmpty(rowData, f) == IF f \in DOMAIN rowData THEN rowData[f] ELSE <<>>

RowPrefix(rowNum) == <<"Row ", ToString(rowNum), ": ">>

\* the returned fields of a row whose url was accepted, or the message of
\* the Error thrown
validatedRow(rowNum, fields) ==
    IF fields.url = <<>>
    THEN [ok |-> FALSE, message |-> RowPrefix(rowNum) \o <<"Empty URL found">>]
    ELSE IF ~UrlParses(fields.url)
    THEN [ok |-> FALSE,
          message |-> RowPrefix(rowNum) \o <<"Invalid URL format: ">> \o fields.url
                      \o <<" Error: ", "Invalid URL">>]
    ELSE [ok |-> TRUE, value |-> fields]

\* mutant: the title is returned as it was read
validateRowUntrimmedTitle(rowNum, rowData) ==
    With([title |-> FieldOrEmpty(rowData, "title"),
          url |-> Trim(FieldOrEmpty(rowData, "url")),
          timeAdded |-> Trim(FieldOrEmpty(rowData, "time_added")),
          tags |-> Trim(FieldOrEmpty(rowData, "tags")),
          status |-> Trim(FieldOrEmpty(rowData, "status"))],
         LAMBDA fields : validatedRow(rowNum, fields))

\* the value returned, or the message of the Error thrown
validateRow(rowNum, rowData) ==
    With([title |-> Trim(FieldOrEmpty(rowData, "title")),
          url |-> Trim(FieldOrEmpty(rowData, "url")),
          timeAdded |-> Trim(FieldOrEmpty(rowData, "time_added")),
          tags |-> Trim(FieldOrEmpty(rowData, "tags")),
          status |-> Trim(FieldOrEmpty(rowData, "status"))],
         LAMBDA fields : validatedRow(rowNum, fields))

-----------------------------------------------------------------------------
(* TagProcessor.processTags *)

DEFAULT_TAG_COLOR == <<"#", "E", "F", "8", "C", "4", "3">>

RECURSIVE TrimEach(_)
TrimEach(ss) == IF ss = <<>> THEN <<>> ELSE <<Trim(Head(ss))>> \o TrimEach(Tail(ss))

RECURSIVE ToLabels(_)
ToLabels(tagList) ==
    IF tagList = <<>> THEN <<>>
    ELSE <<[name |-> Head(tagList), color |-> DEFAULT_TAG_COLOR, description |-> <<>>]>>
         \o ToLabels(Tail(tagList))

\* undefined and null, which are no strings
Undefined == <<"undefined">>
Null == <<"null">>

\* !v for a string, undefined or null
Falsy(v) == v \in {Undefined, Null, <<>>}

\* mutant: the test for a number is made on the trimmed string
processTagsDigitsAfterTrim(tagsString) ==
    IF Falsy(tagsString) \/ Trim(tagsString) = <<>> THEN <<>>
    ELSE IF AllDigits(Trim(tagsString)) THEN <<>>
    ELSE ToLabels(SelectNonEmpty(TrimEach(Split(tagsString, "|"))))

processTags(tagsString) ==
    IF Falsy(tagsString) \/ Trim(tagsString) = <<>> THEN <<>>
    ELSE IF AllDigits(tagsString) THEN <<>>
    ELSE ToLabels(SelectNonEmpty(TrimEach(Split(tagsString, "|"))))

-----------------------------------------------------------------------------------------------------------------------------------------------------
(* CLI.parseArgs.  process.exit(code) ends the process: nothing of parseArgs *)
(* runs after it.  The result is the exit code (none when parseArgs returns),*)
(* whether showHelp ran, the lines written by console.error and the options. *)

Arg_unread_untagged ==
    <<"-", "-", "u", "n", "r", "e", "a", "d", "_", "u", "n", "t", "a", "g", "g", "e", "d">>
Arg_help == <<"-", "-", "h", "e", "l", "p">>
Arg_h == <<"-", "h">>

\* arg.startsWith('--')
StartsWithDashes(arg) == Len(arg) >= 2 /\ arg[1] = "-" /\ arg[2] = "-"

Exits(code, help, errors, options) ==
    [exitCode |-> <<code>>, help |-> help, errors |-> errors, options |-> options]

\* the loop over the arguments that are left, then the test after the loop
RECURSIVE parseArgsFrom(_, _)
parseArgsFrom(args, options) ==
    IF args = <<>>
    THEN IF Falsy(options.csvFile)
         THEN Exits(1, FALSE,
                    <<"Error: CSV file path is required",
                      "Usage: node import-pocket-to-omnivore.js [options] <csv_file_path>">>,
                    options)
         ELSE [exitCode |-> <<>>, help |-> FALSE, errors |-> <<>>, options |-> options]
    ELSE IF Head(args) = Arg_unread_untagged
    THEN parseArgsFrom(Tail(args), [options EXCEPT !.unreadUntagged = TRUE])
    ELSE IF Head(args) \in {Arg_help, Arg_h}
    THEN Exits(0, TRUE, <<>>, options)
    ELSE IF ~StartsWithDashes(Head(args))
    THEN IF Falsy(options.csvFile)
         THEN parseArgsFrom(Tail(args), [options EXCEPT !.csvFile = Head(args)])
         ELSE Exits(1, FALSE, <<"Error: Multiple CSV files specified">>, options)
    ELSE Exits(1, FALSE, <<"Error: Unknown option ">> \o Head(args), options)

parseArgs(args) == parseArgsFrom(args, [unreadUntagged |-> FALSE, csvFile |-> Null])

-----
(* constructor: this.options from the options given.  options.f || d is d   *)
(* when f is missing and when its value is falsy (false, 0).                *)

DefaultDelayBetweenRequests == 200

DefaultUrlTimeout == 10000

\* options.f || d for a number
NumberOr(options, f, d) ==
    IF f \in DOMAIN options /\ options[f] # 0 THEN options[f] ELSE d

\* options.f || false for a boolean
BooleanOrFalse(options, f) == f \in DOMAIN options /\ options[f]

constructor(options) ==
    [unreadUntagged |-> BooleanOrFalse(options, "unreadUntagged"),
     delayBetweenRequests |->
         NumberOr(options, "delayBetweenRequests", DefaultDelayBetweenRequests),
     urlTimeout |-> NumberOr(options, "urlTimeout", DefaultUrlTimeout)]

-----------------------------------------------------------------------------
(* checkUrlAlive: what the promise resolves to for the event that settles it. *)
(* statusCode is <<>> for null and <<code>> for a number.                     *)

\* mutant: a 200 is not taken as alive
checkUrlAliveAbove200(ev) ==
    IF ev.kind = "response"
    THEN IF ev.statusCode > 200 /\ ev.statusCode < 400
         THEN [isAlive |-> TRUE, statusCode |-> <<ev.statusCode>>, reason |-> <<"OK">>]
         ELSE [isAlive |-> FALSE, statusCode |-> <<ev.statusCode>>,
               reason |-> <<"HTTP ", ToString(ev.statusCode)>>]
    ELSE IF ev.kind = "error"
    THEN [isAlive |-> FALSE, statusCode |-> <<>>,
          reason |-> IF ev.code # "" THEN <<ev.code>> ELSE <<ev.message>>]
    ELSE [isAlive |-> FALSE, statusCode |-> <<>>, reason |-> <<"Timeout">>]

\* an error without a code has code ""
checkUrlAlive(ev) ==
    IF ev.kind = "response"
    THEN IF ev.statusCode >= 200 /\ ev.statusCode < 400
         THEN [isAlive |-> TRUE, statusCode |-> <<ev.statusCode>>, reason |-> <<"OK">>]
         ELSE [isAlive |-> FALSE, statusCode |-> <<ev.statusCode>>,
               reason |-> <<"HTTP ", ToString(ev.statusCode)>>]
    ELSE IF ev.kind = "error"
    THEN [isAlive |-> FALSE, statusCode |-> <<>>,
          reason |-> IF ev.code # "" THEN <<ev.code>> ELSE <<ev.message>>]
    ELSE [isAlive |-> FALSE, statusCode |-> <<>>, reason |-> <<"Timeout">>]

\* urlObj.pathname when the URL has an opaque path (a scheme that is not
\* special, and no "/" after it): the parser keeps a space of an opaque path
\* as it is, and percent-encodes it in every other path and in the query
OpaquePathOf(url) ==
    LET rest == SubSeq(url, SchemeEnd(url) + 1, Len(url))
        stop == IndexOfAny(rest, {"?", "#"}, 1)
    IN  IF stop = 0 THEN rest ELSE SubSeq(rest, 1, stop - 1)

HasOpaquePath(url) ==
    /\ SubSeq(url, 1, SchemeEnd(url) - 1) \notin SpecialSchemes
    /\ SchemeEnd(url) < Len(url)
    /\ url[SchemeEnd(url) + 1] # "/"

\* httpModule.request(options, ...) throws ERR_UNESCAPED_CHARACTERS when
\* options.path holds a character outside \u0021-\u00ff; the throw happens
\* inside the executor of the promise, which is then rejected
RequestThrows(url) ==
    /\ HasOpaquePath(url)
    /\ \E i \in 1..Len(OpaquePathOf(url)) : OpaquePathOf(url)[i] = " "

UnescapedCharacters == <<"Request path contains unescaped characters">>

\* the events the model lets settle a probe
ProbeEvents ==
    { [kind |-> "response", statusCode |-> 200, code |-> "", message |-> ""],
      [kind |-> "response", statusCode |-> 404, code |-> "", message |-> ""],
      [kind |-> "timeout", statusCode |-> 0, code |-> "", message |-> ""] }

-----------------------------------------------------------------------------
(* shouldArchiveArticle *)

\* mutant: the option is read the wrong way round
shouldArchiveArticleInverted(status, hasTags) ==
    IF status # Str_archive THEN FALSE
    ELSE IF unreadUntagged THEN TRUE
    ELSE hasTags

\* mutant: the unreadUntagged option is ignored
shouldArchiveArticleAlways(status, hasTags) ==
    IF status # Str_archive THEN FALSE ELSE TRUE

shouldArchiveArticle(status, hasTags) ==
    IF status # Str_archive THEN FALSE
    ELSE IF unreadUntagged THEN hasTags
    ELSE TRUE

-----------------------------------------------------------------------------
(* buildSaveParams and its parts.  A request is a record that has a field   *)
(* only when the code sets it.                                              *)

prepareSaveParams(url, uuid) ==
    [url |-> url, clientRequestId |-> uuid, source |-> "api",
     timezone |-> "UTC", locale |-> "en-US"]

addLabelsToParams(saveParams, labels) ==
    IF Len(labels) > 0 THEN saveParams @@ [labels |-> labels] ELSE saveParams

\* mutant: the state is always sent
addArchiveStateToParamsAlways(saveParams, shouldArchive) ==
    saveParams @@ [state |-> IF shouldArchive THEN "ARCHIVED" ELSE "ACTIVE"]

addArchiveStateToParams(saveParams, shouldArchive) ==
    IF shouldArchive THEN saveParams @@ [state |-> "ARCHIVED"] ELSE saveParams

RECURSIVE LeadingDigits(_)
LeadingDigits(s) ==
    IF s # <<>> /\ Head(s) \in DigitChars
    THEN <<Head(s)>> \o LeadingDigits(Tail(s))
    ELSE <<>>

RECURSIVE StripLeadingZeros(_)
StripLeadingZeros(ds) ==
    IF Len(ds) > 1 /\ Head(ds) = "0" THEN StripLeadingZeros(Tail(ds)) ELSE ds

\* parseInt(s, 10): a number is its sign and its decimal digits (no leading zero)
parseInt10(s) ==
    With(TrimStart(s),
         LAMBDA t :
            With(LeadingDigits(IF t # <<>> /\ Head(t) \in {"-", "+"}
                               THEN Tail(t) ELSE t),
                 LAMBDA ds :
                    IF ds = <<>>
                    THEN [nan |-> TRUE, neg |-> FALSE, digits |-> <<>>]
                    ELSE [nan |-> FALSE, neg |-> t # <<>> /\ Head(t) = "-",
                          digits |-> StripLeadingZeros(ds)]))

\* n * 1000
TimesThousand(n) ==
    IF n.digits = <<"0">> THEN n
    ELSE [n EXCEPT !.digits = n.digits \o <<"0", "0", "0">>]

\* the largest time value of a Date, 8.64e15 ms
MaxTimeValueDigits ==
    <<"8", "6", "4", "0", "0", "0", "0", "0", "0", "0", "0", "0", "0", "0", "0", "0">>

DigitValue(c) == CHOOSE v \in 0..9 : ToString(v) = c

RECURSIVE DigitsLeq(_, _)
DigitsLeq(a, b) ==
    IF a = <<>> THEN TRUE
    ELSE IF Head(a) # Head(b) THEN DigitValue(Head(a)) < DigitValue(Head(b))
    ELSE DigitsLeq(Tail(a), Tail(b))

\* new Date(ms) holds a valid time value
ValidTimeValue(ms) ==
    \/ Len(ms.digits) < Len(MaxTimeValueDigits)
    \/ Len(ms.digits) = Len(MaxTimeValueDigits) /\ DigitsLeq(ms.digits, MaxTimeValueDigits)

MsPerDay == 86400000

\* ds \div d and ds % d for a decimal digit sequence ds, as [q, r]
RECURSIVE LongDiv(_, _, _, _)
LongDiv(ds, d, q, r) ==
    IF ds = <<>> THEN [q |-> q, r |-> r]
    ELSE With(r * 10 + DigitValue(Head(ds)),
              LAMBDA x : LongDiv(Tail(ds), d, q * 10 + (x \div d), x % d))

\* Day(t) and TimeWithinDay(t) of ECMAScript: floor(t / msPerDay), t modulo msPerDay
DayAndTime(ms) ==
    With(LongDiv(ms.digits, MsPerDay, 0, 0),
         LAMBDA qr :
            IF ~ms.neg THEN [day |-> qr.q, time |-> qr.r]
            ELSE IF qr.r = 0 THEN [day |-> 0 - qr.q, time |-> 0]
            ELSE [day |-> 0 - qr.q - 1, time |-> MsPerDay - qr.r])

\* the year of the era and the day of that year (from 1 March) of the day
\* doe of a 400-year era
YearAndDayOfEra(doe) ==
    With((doe - (doe \div 1460) + (doe \div 36524) - (doe \div 146096)) \div 365,
         LAMBDA yoe :
            [yoe |-> yoe,
             doy |-> doe - (365 * yoe + (yoe \div 4) - (yoe \div 100))])

\* the month and the date of day doy of a year that begins on 1 March
MonthAndDate(doy) ==
    With((5 * doy + 2) \div 153,
         LAMBDA mp :
            [month |-> IF mp < 10 THEN mp + 3 ELSE mp - 9,
             date |-> doy - ((153 * mp + 2) \div 5) + 1])

\* YearFromTime, MonthFromTime, DateFromTime: the proleptic Gregorian date of
\* day number `day` (day 0 is 1970-01-01)
CivilFromDays(day) ==
    With((day + 719468) \div 146097,
         LAMBDA era :
            With(YearAndDayOfEra(day + 719468 - era * 146097),
                 LAMBDA yd :
                    With(MonthAndDate(yd.doy),
                         LAMBDA md :
                            [year |-> yd.yoe + era * 400
                                      + (IF md.month <= 2 THEN 1 ELSE 0),
                             month |-> md.month,
                             date |-> md.date])))

RECURSIVE PowerOfTen(_)
PowerOfTen(k) == IF k = 0 THEN 1 ELSE 10 * PowerOfTen(k - 1)

\* String(n).padStart(width, "0") for 0 <= n < 10^width
ZeroPadded(n, width) ==
    [i \in 1..width |-> ToString((n \div PowerOfTen(width - i)) % 10)]

\* the year of toISOString: four digits, or a sign and six digits
YearText(y) ==
    IF y >= 0 /\ y <= 9999 THEN ZeroPadded(y, 4)
    ELSE IF y < 0 THEN <<"-">> \o ZeroPadded(0 - y, 6)
    ELSE <<"+">> \o ZeroPadded(y, 6)

\* the text of the date c and of the time t (ms within the day)
IsoText(c, t) ==
    YearText(c.year) \o <<"-">> \o ZeroPadded(c.month, 2) \o <<"-">>
    \o ZeroPadded(c.date, 2) \o <<"T">>
    \o ZeroPadded(t \div 3600000, 2) \o <<":">>
    \o ZeroPadded((t % 3600000) \div 60000, 2) \o <<":">>
    \o ZeroPadded((t % 60000) \div 1000, 2) \o <<".">>
    \o ZeroPadded(t % 1000, 3) \o <<"Z">>

\* Date.prototype.toISOString of a valid time value
toISOString(ms) ==
    With(DayAndTime(ms),
         LAMBDA dt : With(CivilFromDays(dt.day), LAMBDA c : IsoText(c, dt.time)))

\* the parameters with the timestamp, or the message of the RangeError
\* toISOString throws
WithTimestamp(saveParams, ms) ==
    IF ValidTimeValue(ms)
    THEN With(toISOString(ms),
              LAMBDA timestamp :
                 [ok |-> TRUE,
                  value |-> saveParams @@ [savedAt |-> timestamp,
                                           publishedAt |-> timestamp]])
    ELSE [ok |-> FALSE, message |-> <<"Invalid time value">>]

addTimestampsToParams(saveParams, timeAdded) ==
    IF timeAdded # <<>> /\ ~parseInt10(timeAdded).nan
    THEN With(TimesThousand(parseInt10(timeAdded)),
              LAMBDA ms : WithTimestamp(saveParams, ms))
    ELSE [ok |-> TRUE, value |-> saveParams]

buildSaveParams(url, labels, shouldArchive, timeAdded, uuid) ==
    addTimestampsToParams(
        addArchiveStateToParams(
            addLabelsToParams(prepareSaveParams(url, uuid), labels),
            shouldArchive),
        timeAdded)

-----------------------------------------------------------------------------
(* saveArticleToOmnivore / handleOmnivoreError *)

\* how omnivore.items.saveByUrl can end
SaveOutcomes ==
    { [ok |-> TRUE, isOmnivoreError |-> FALSE, code |-> "", message |-> <<>>],
      [ok |-> FALSE, isOmnivoreError |-> TRUE, code |-> "GraphQLError",
       message |-> <<"bad input">>],
      [ok |-> FALSE, isOmnivoreError |-> TRUE, code |-> "NetworkError",
       message |-> <<"socket hang up">>],
      [ok |-> FALSE, isOmnivoreError |-> TRUE, code |-> "UnknownError",
       message |-> <<"unknown">>],
      [ok |-> FALSE, isOmnivoreError |-> FALSE, code |-> "",
       message |-> <<"boom">>] }

\* mutant: an error that is no OmnivoreError is reported as an Omnivore error
handleOmnivoreErrorThreeWay(error) ==
    IF error.isOmnivoreError /\ error.code = "GraphQLError"
    THEN <<"GraphQL error: ">> \o error.message
    ELSE IF error.isOmnivoreError /\ error.code = "NetworkError"
    THEN <<"Network error: ">> \o error.message
    ELSE <<"Omnivore error: ">> \o error.message

handleOmnivoreError(error) ==
    IF error.isOmnivoreError
    THEN IF error.code = "GraphQLError" THEN <<"GraphQL error: ">> \o error.message
         ELSE IF error.code = "NetworkError" THEN <<"Network error: ">> \o error.message
         ELSE <<"Omnivore error: ">> \o error.message
    ELSE <<"Unexpected error - ">> \o error.message

-----------------------------------------------------------------------------
(* processing results and statistics *)

\* mutant: isArchived taken from the Pocket status, not from the request
createProcessingResultByStatus(apiResult, title, url, labels, saveParams, status) ==
    [success |-> TRUE, id |-> apiResult.id, title |-> title, url |-> url,
     hasLabels |-> Len(labels) > 0,
     isArchived |-> (status = Str_archive),
     wasArchivedInPocket |-> (status = Str_archive)]

createProcessingResult(apiResult, title, url, labels, saveParams, status) ==
    [success |-> TRUE, id |-> apiResult.id, title |-> title, url |-> url,
     hasLabels |-> Len(labels) > 0,
     isArchived |-> ("state" \in DOMAIN saveParams /\ saveParams.state = "ARCHIVED"),
     wasArchivedInPocket |-> (status = Str_archive)]

\* mutant: a dead URL reported as an unsuccessful row without the skipped mark
createSkippedResultUnmarked(title, url, reason) ==
    [success |-> FALSE, title |-> title, url |-> url,
     reason |-> reason, hasLabels |-> FALSE, isArchived |-> FALSE,
     wasArchivedInPocket |-> FALSE]

createSkippedResult(title, url, reason) ==
    [success |-> FALSE, skipped |-> TRUE, title |-> title, url |-> url,
     reason |-> reason, hasLabels |-> FALSE, isArchived |-> FALSE,
     wasArchivedInPocket |-> FALSE]

initializeStats ==
    [total |-> 0, successful |-> 0, skipped |-> 0, tagged |-> 0, archived |-> 0,
     skippedArchive |-> 0]

Bump(b) == IF b THEN 1 ELSE 0

\* mutant: every saved row that was archived in Pocket counts as skippedArchive
updateStatsSkippedArchiveAlways(st, result) ==
    IF "skipped" \in DOMAIN result /\ result.skipped
    THEN [st EXCEPT !.total = @ + 1, !.skipped = @ + 1]
    ELSE IF result.success
    THEN [st EXCEPT !.total = @ + 1,
                    !.successful = @ + 1,
                    !.tagged = @ + Bump(result.hasLabels),
                    !.archived = @ + Bump(result.isArchived),
                    !.skippedArchive = @ + Bump(result.wasArchivedInPocket)]
    ELSE [st EXCEPT !.total = @ + 1]

\* mutant: the statistics of the importer without URL checking (no skipped branch)
updateStatsNoSkipped(st, result) ==
    IF result.success
    THEN [st EXCEPT !.total = @ + 1,
                    !.successful = @ + 1,
                    !.tagged = @ + Bump(result.hasLabels),
                    !.archived = @ + Bump(result.isArchived),
                    !.skippedArchive =
                        @ + Bump(result.wasArchivedInPocket /\ ~result.isArchived)]
    ELSE [st EXCEPT !.total = @ + 1]

\* mutant: a skipped row is not counted in total
updateStatsSkippedUncounted(st, result) ==
    IF "skipped" \in DOMAIN result /\ result.skipped
    THEN [st EXCEPT !.skipped = @ + 1]
    ELSE IF result.success
    THEN [st EXCEPT !.total = @ + 1,
                    !.successful = @ + 1,
                    !.tagged = @ + Bump(result.hasLabels),
                    !.archived = @ + Bump(result.isArchived),
                    !.skippedArchive =
                        @ + Bump(result.wasArchivedInPocket /\ ~result.isArchived)]
    ELSE [st EXCEPT !.total = @ + 1]

updateStats(st, result) ==
    IF "skipped" \in DOMAIN result /\ result.skipped
    THEN [st EXCEPT !.total = @ + 1, !.skipped = @ + 1]
    ELSE IF result.success
    THEN [st EXCEPT !.total = @ + 1,
                    !.successful = @ + 1,
                    !.tagged = @ + Bump(result.hasLabels),
                    !.archived = @ + Bump(result.isArchived),
                    !.skippedArchive =
                        @ + Bump(result.wasArchivedInPocket /\ ~result.isArchived)]
    ELSE [st EXCEPT !.total = @ + 1]

-----------------------------------------------------------------------------
(* The rows a run may be given.  A raw row maps column names to strings and *)
(* may lack columns.                                                        *)

Url_a == <<"h", "t", "t", "p", ":", "/", "/", "a">>
Url_b == <<" ", "h", "t", "t", "p", "s", ":", "/", "/", "b", "/", "1", " ">>
Url_c == <<"h", "t", "t", "p", ":", "/", "/", "c", ".", "d">>
Url_bad == <<"n", "o", "t", "-", "a", "-", "u", "r", "l">>
Url_opaque == <<"f", "o", "o", ":", "a", " ", "b">>

RowTaggedUnread ==
    [title |-> <<"A">>, url |-> Url_a, tags |-> <<"x", "|", "y">>,
     time_added |-> <<"1", "6", "0", "9", "4", "5", "9", "2", "0", "0">>,
     status |-> Str_unread]

RowUntaggedArchive ==
    [url |-> Url_b, status |-> <<" ">> \o Str_archive \o <<" ">>]

RowTaggedArchive ==
    [title |-> <<" ", "C">>, url |-> Url_c, tags |-> <<" ", "t", " ", "|">>,
     time_added |-> <<"1", "2", "a", "b">>, status |-> Str_archive]

RowEmptyUrl ==
    [title |-> <<"D">>, url |-> <<" ", " ">>, tags |-> <<"t">>,
     time_added |-> <<>>, status |-> Str_unread]

RowInvalidUrl ==
    [title |-> <<"E">>, url |-> Url_bad, tags |-> <<"t">>,
     time_added |-> <<"5">>, status |-> Str_archive]

RowHugeTime ==
    [title |-> <<"F">>, url |-> Url_a, tags |-> <<"1", "2">>,
     time_added |-> <<"9", "9", "9", "9", "9", "9", "9", "9", "9", "9", "9", "9",
                      "9", "9">>,
     status |-> Str_archive]

RowOpaqueUrl ==
    [title |-> <<"G">>, url |-> Url_opaque, status |-> Str_unread]

RowPool ==
    {RowTaggedUnread, RowUntaggedArchive, RowTaggedArchive, RowEmptyUrl,
     RowInvalidUrl, RowHugeTime, RowOpaqueUrl}

SeqsUpTo(S, n) == UNION {[1..k -> S] : k \in 0..n}

-----------------------------------------------------------------------------
(* The run: importFromCsv after validateAndParseCsv has produced the rows.   *)

NoLocals == [rowNum |-> 0]

NoCall == [fn |-> "none"]

NoRequest == [state |-> "none"]

NoRuns == [state |-> "none"]

Ev(op, rowNum) == [op |-> op, row |-> rowNum]

Line(level, text) == [level |-> level, text |-> text]

Init ==
    /\ rows \in SeqsUpTo(RowPool, MaxRows)
    /\ unreadUntagged \in BOOLEAN
    /\ pc = "idle"
    /\ index = 0
    /\ stats = initializeStats
    /\ cur = NoLocals
    /\ uuidCount = 0
    /\ returned = <<>>
    /\ thrown = <<>>
    /\ log = <<>>
    /\ progress = <<>>
    /\ trace = <<>>
    /\ results = <<>>
    /\ probes = <<>>
    /\ requests = <<>>
    /\ call = NoCall
    /\ req = NoRequest
    /\ runs = NoRuns

\* importFromCsv up to the first iteration of processAllRows
importFromCsv ==
    /\ pc = "idle"
    /\ log' = Append(log, Line("info", <<"Starting import process...\n">>))
    /\ stats' = initializeStats
    /\ index' = 0
    /\ pc' = "loop"
    /\ UNCHANGED <<rows, unreadUntagged, cur, uuidCount, returned, thrown,
                   progress, trace, results, probes, requests>>

\* mutant: the failure handler also announces the end of the import
handleProcessingErrorAnnounced(error, rowNum, row, st) ==
    << Line("finalizeProgress", <<>>),
       Line("error", <<"IMPORT STOPPED: ">> \o error),
       Line("success", <<"Import completed successfully!">>),
       Line("success", <<"Final Statistics:">>) >>

\* what handleProcessingError logs before it re-throws
handleProcessingError(error, rowNum, row, st) ==
    << Line("finalizeProgress", <<>>),
       Line("error", <<"IMPORT STOPPED: ">> \o error),
       Line("error", <<"Failed at row ", ToString(rowNum), ":">>),
       Line("error", <<"  Title: \"">> \o Trim(FieldOrEmpty(row, "title")) \o <<"\"">>),
       Line("error", <<"  URL: \"">> \o Trim(FieldOrEmpty(row, "url")) \o <<"\"">>),
       Line("error", <<"  Tags: \"">> \o Trim(FieldOrEmpty(row, "tags")) \o <<"\"">>),
       Line("error", <<"  Status: \"">> \o Trim(FieldOrEmpty(row, "status")) \o <<"\"">>),
       Line("error", <<"\nProgress before failure: ", ToString(st.successful), "/",
                       ToString(st.total - 1), " articles imported successfully">>) >>

\* mutant: handleProcessingError logs the failure and does not re-throw
FailSwallowed(rowNum, message, done) ==
    LET error == RowPrefix(rowNum) \o message
    IN  /\ log' = log \o handleProcessingError(error, rowNum, rows[rowNum], stats)
        /\ thrown' = thrown
        /\ trace' = trace \o done \o <<Ev("throw", rowNum)>>
        /\ pc' = "delay"
        /\ cur' = NoLocals

\* the catch of processRow, then the catch of processAllRows: the run fails
Fail(rowNum, message, done) ==
    LET error == RowPrefix(rowNum) \o message
    IN  /\ log' = log \o handleProcessingError(error, rowNum, rows[rowNum], stats)
        /\ thrown' = <<error>>
        /\ trace' = trace \o done \o <<Ev("throw", rowNum)>>
        /\ pc' = "failed"
        /\ cur' = NoLocals

\* mutant: the next iteration starts without the pacing delay
RowDoneNoDelay(rowNum, result, done) ==
    /\ stats' = updateStats(stats, result)
    /\ results' = Append(results, result)
    /\ cur' = NoLocals
    /\ pc' = "loop"
    /\ trace' = trace \o done \o <<Ev("stats", rowNum)>>
    /\ index' = index + 1

\* mutant: the pacing test is off by one (index < rows.length)
RowDoneDelayAlways(rowNum, result, done) ==
    /\ stats' = updateStats(stats, result)
    /\ results' = Append(results, result)
    /\ cur' = NoLocals
    /\ IF index < Len(rows)
       THEN /\ pc' = "delay"
            /\ trace' = trace \o done \o <<Ev("stats", rowNum), Ev("delay", rowNum)>>
            /\ index' = index
       ELSE /\ pc' = "loop"
            /\ trace' = trace \o done \o <<Ev("stats", rowNum)>>
            /\ index' = index + 1

\* updateStats, then the pacing test that ends an iteration of processAllRows
RowDone(rowNum, result, done) ==
    /\ stats' = updateStats(stats, result)
    /\ results' = Append(results, result)
    /\ cur' = NoLocals
    /\ IF index < Len(rows) - 1
       THEN /\ pc' = "delay"
            /\ trace' = trace \o done \o <<Ev("stats", rowNum), Ev("delay", rowNum)>>
            /\ index' = index
       ELSE /\ pc' = "loop"
            /\ trace' = trace \o done \o <<Ev("stats", rowNum)>>
            /\ index' = index + 1

CurrentTitle(row) ==
    IF Trim(FieldOrEmpty(row, "title")) # <<>>
    THEN Trim(FieldOrEmpty(row, "title"))
    ELSE <<"Untitled">>

\* an iteration of processAllRows up to the await of checkUrlAlive
StartRow ==
    /\ pc = "loop"
    /\ index < Len(rows)
    /\ \E rowNum \in {index + 1} :
       \E row \in {rows[rowNum]} :
       \E v \in {validateRow(rowNum, row)} :
           /\ progress' = Append(progress,
                  [current |-> stats.total, total |-> Len(rows),
                   message |-> <<"Processing: ">> \o CurrentTitle(row)])
           /\ IF ~v.ok
              THEN Fail(rowNum, v.message,
                        <<Ev("validate", rowNum), Ev("invalid", rowNum)>>)
              ELSE IF RequestThrows(v.value.url)
              THEN Fail(rowNum, UnescapedCharacters,
                        <<Ev("validate", rowNum), Ev("probe", rowNum),
                          Ev("probeRejected", rowNum)>>)
              ELSE /\ cur' = [rowNum |-> rowNum, row |-> v.value]
                   /\ trace' = trace \o <<Ev("validate", rowNum), Ev("probe", rowNum)>>
                   /\ pc' = "probe"
                   /\ UNCHANGED <<log, thrown>>
    /\ UNCHANGED <<rows, unreadUntagged, index, stats, uuidCount, returned,
                   results, probes, requests>>

\* checkUrlAlive resolves; processRow runs up to the await of saveByUrl
ProbeSettled(ev) ==
    /\ pc = "probe"
    /\ \E rowNum \in {cur.rowNum} :
       \E r \in {cur.row} :
       \E urlCheck \in {checkUrlAlive(ev)} :
       \E labels \in {processTags(r.tags)} :
       \E hasTags \in {Len(labels) > 0} :
       \E shouldArchive \in {shouldArchiveArticle(r.status, hasTags)} :
       \E built \in {buildSaveParams(r.url, labels, shouldArchive, r.timeAdded,
                                     uuidCount + 1)} :
           /\ probes' = Append(probes, urlCheck)
           /\ IF ~urlCheck.isAlive
              THEN /\ log' = Append(log, Line("warning",
                              RowPrefix(rowNum) \o <<"Skipping dead URL (">>
                              \o urlCheck.reason \o <<"): ">> \o r.url))
                   /\ RowDone(rowNum,
                              createSkippedResult(r.title, r.url,
                                                  <<"Dead URL: ">> \o urlCheck.reason),
                              <<Ev("probeDone", rowNum)>>)
                   /\ UNCHANGED <<uuidCount, requests, thrown>>
              ELSE IF built.ok
              THEN /\ cur' = [rowNum |-> rowNum, row |-> r, labels |-> labels,
                              hasTags |-> hasTags, shouldArchive |-> shouldArchive,
                              saveParams |-> built.value]
                   /\ requests' = Append(requests,
                                         [row |-> rowNum, params |-> built.value])
                   /\ trace' = trace \o <<Ev("probeDone", rowNum), Ev("build", rowNum),
                                          Ev("save", rowNum)>>
                   /\ pc' = "save"
                   /\ uuidCount' = uuidCount + 1
                   /\ UNCHANGED <<log, thrown, stats, results, index>>
              ELSE /\ Fail(rowNum, built.message,
                           <<Ev("probeDone", rowNum), Ev("build", rowNum)>>)
                   /\ uuidCount' = uuidCount + 1
                   /\ UNCHANGED <<stats, results, index, requests>>
    /\ UNCHANGED <<rows, unreadUntagged, returned, progress>>

\* mutant: a failed save is retried once before the row is given up
SaveSettledRetry(out) ==
    /\ pc = "save"
    /\ LET rowNum == cur.rowNum
           r == cur.row
           tried == Cardinality({p \in 1..Len(trace) : trace[p] = Ev("save", rowNum)})
       IN  IF out.ok
           THEN /\ RowDone(rowNum,
                           createProcessingResult([id |-> "item"], r.title, r.url,
                                                  cur.labels, cur.saveParams, r.status),
                           <<Ev("saveDone", rowNum)>>)
                /\ UNCHANGED <<log, thrown, requests>>
           ELSE IF tried < 2
           THEN /\ trace' = trace \o <<Ev("saveFailed", rowNum), Ev("save", rowNum)>>
                /\ requests' = Append(requests,
                                      [row |-> rowNum, params |-> cur.saveParams])
                /\ UNCHANGED <<log, thrown, stats, results, index, pc, cur>>
           ELSE /\ Fail(rowNum, handleOmnivoreError(out), <<Ev("saveFailed", rowNum)>>)
                /\ UNCHANGED <<stats, results, index, requests>>
    /\ UNCHANGED <<rows, unreadUntagged, uuidCount, returned, progress, probes>>

\* saveByUrl returns or throws; processRow ends
SaveSettled(out) ==
    /\ pc = "save"
    /\ LET rowNum == cur.rowNum
           r == cur.row
       IN  IF out.ok
           THEN /\ RowDone(rowNum,
                           createProcessingResult([id |-> "item"], r.title, r.url,
                                                  cur.labels, cur.saveParams, r.status),
                           <<Ev("saveDone", rowNum)>>)
                /\ UNCHANGED <<log, thrown>>
           ELSE /\ Fail(rowNum, handleOmnivoreError(out), <<Ev("saveFailed", rowNum)>>)
                /\ UNCHANGED <<stats, results, index>>
    /\ UNCHANGED <<rows, unreadUntagged, uuidCount, returned, progress, probes,
                   requests>>

\* mutant: the timer of the pacing delay never fires
DelayElapsedNever ==
    /\ pc = "delay"
    /\ UNCHANGED vars

\* the pacing delay elapses
DelayElapsed ==
    /\ pc = "delay"
    /\ pc' = "loop"
    /\ index' = index + 1
    /\ trace' = Append(trace, Ev("delayDone", index + 1))
    /\ UNCHANGED <<rows, unreadUntagged, stats, cur, uuidCount, returned, thrown,
                   log, progress, results, probes, requests>>

\* what logFinalStatistics logs
logFinalStatistics(st) ==
    << Line("success", <<"Import completed successfully!">>),
       Line("success", <<"Final Statistics:">>),
       Line("success", <<"  Total articles processed: ", ToString(st.successful), "/",
                         ToString(st.total)>>) >>
    \o (IF st.skipped > 0
        THEN <<Line("success", <<"  Articles skipped (dead URLs): ",
                                 ToString(st.skipped)>>)>>
        ELSE <<>>)
    \o << Line("success", <<"  Articles with tags: ", ToString(st.tagged)>>),
          Line("success", <<"  Articles archived: ", ToString(st.archived)>>),
          Line("success", <<"  Articles kept unread: ",
                            ToString(st.successful - st.archived)>>) >>
    \o (IF unreadUntagged /\ st.skippedArchive > 0
        THEN <<Line("success", <<"  Archived->Unread (untagged): ",
                                 ToString(st.skippedArchive)>>)>>
        ELSE <<>>)

\* processAllRows returns; finalizeImport; importFromCsv returns the statistics
finalizeImport ==
    /\ pc = "loop"
    /\ index >= Len(rows)
    /\ progress' = Append(progress,
           [current |-> Len(rows), total |-> Len(rows),
            message |-> <<"Import completed!">>])
    /\ log' = log \o <<Line("finalizeProgress", <<>>)>> \o logFinalStatistics(stats)
    /\ returned' = <<stats>>
    /\ trace' = Append(trace, Ev("return", 0))
    /\ pc' = "completed"
    /\ UNCHANGED <<rows, unreadUntagged, index, stats, cur, uuidCount, thrown,
                   results, probes, requests>>

Next ==
    /\ \/ importFromCsv
       \/ StartRow
       \/ \E ev \in ProbeEvents : ProbeSettled(ev)
       \/ \E out \in SaveOutcomes : SaveSettled(out)
       \/ DelayElapsed
       \/ finalizeImport
    /\ UNCHANGED <<call, req, runs>>

Spec == Init /\ [][Next]_vars

\* The run under the assumption that what it awaits settles: every probe and
\* every save call returns or fails, the timer of the delay fires, and the
\* code between two awaits runs.  At most one of these is pending at a time.
InitLive == Init /\ Len(rows) <= MaxLiveRows

LiveSpec == InitLive /\ [][Next]_vars /\ WF_vars(Next)

-----------------------------------------------------------------------------
(* The functions of the code applied to inputs of their own: the initial    *)
(* state holds the arguments of one call, the action of the function adds   *)
(* what it returns.                                                         *)

Pad(n) == [i \in 1..n |-> " "]

Padded(s, n) == Pad(n) \o s \o Pad(n)

UrlSchemeTexts ==
    { <<>>, <<"h", "t", "t", "p", ":">>, <<"h", "t", "t", "p", "s", ":">>,
      <<"f", "o", "o", ":">>, <<"m", "a", "i", "l", "t", "o", ":">>,
      <<"9", "x", ":">> }

UrlSlashTexts == { <<>>, <<"/">>, <<"/", "/">> }

UrlRestTexts ==
    { <<>>, <<"x">>, <<"b", "a", "r">>, <<"a", ".", "b", "/", "c">>,
      <<"a", " ", "b">> }

UrlTexts ==
    { sch \o sl \o rest :
        sch \in UrlSchemeTexts, sl \in UrlSlashTexts, rest \in UrlRestTexts }

\* the columns other than url, with a value for each
FieldSample ==
    [title |-> <<"T">>, tags |-> <<"x", "|", "y">>, time_added |-> <<"1", "2">>,
     status |-> Str_archive]

\* a raw row: the url column if urlOpt holds a text, the columns of fields,
\* every value between n spaces
RawRow(urlOpt, fields, n) ==
    [f \in fields \cup (IF urlOpt = <<>> THEN {} ELSE {"url"}) |->
        IF f = "url" THEN Padded(urlOpt[1], n) ELSE Padded(FieldSample[f], n)]

RawRows ==
    { RawRow(urlOpt, fields, n) :
        urlOpt \in {<<>>} \cup {<<u>> : u \in UrlTexts},
        fields \in SUBSET (DOMAIN FieldSample),
        n \in 0..MaxPad }

ValidateRowInputs ==
    { [fn |-> "validateRow", rowNum |-> k, rowData |-> rd] :
        k \in 1..MaxRows, rd \in RawRows }

TimeChars == {"0", "1", "a", "-"}

TimeAddedTexts ==
    SeqsUpTo(TimeChars, MaxTimeLen)
    \cup { RowTaggedUnread.time_added, RowTaggedArchive.time_added,
           RowHugeTime.time_added, <<"+", "7">>, <<"1", ".", "5">>,
           <<"1", "e", "3">>, <<"9", "5", "1", "7", "8", "2", "4", "0", "0">> }

AddTimestampsInputs ==
    { [fn |-> "addTimestampsToParams", saveParams |-> prepareSaveParams(Url_a, 1),
       timeAdded |-> t] : t \in TimeAddedTexts }

TagChars == {"a", "1", "|", " "}

TagTexts == SeqsUpTo(TagChars, MaxTagLen) \cup {Undefined, Null}

ProcessTagsInputs == { [fn |-> "processTags", tagsString |-> t] : t \in TagTexts }

\* the options a caller may pass to the constructor: any of the three, or none
DelayValues == {0, 100, 200}

TimeoutValues == {0, 1000, 5000}

OptionRecords ==
    { [f \in fields |->
          IF f = "unreadUntagged" THEN u
          ELSE IF f = "delayBetweenRequests" THEN d
          ELSE t] :
        fields \in SUBSET {"unreadUntagged", "delayBetweenRequests", "urlTimeout"},
        u \in BOOLEAN, d \in DelayValues, t \in TimeoutValues }

ConstructorInputs == { [fn |-> "constructor", options |-> o] : o \in OptionRecords }

\* the arguments the tests give, an unknown option and a second file
ArgTexts ==
    {Arg_unread_untagged, Arg_help, Arg_h,
     <<"t", ".", "c", "s", "v">>, <<"u", ".", "c", "s", "v">>,
     <<"-", "-", "x">>}

ParseArgsInputs == { [fn |-> "parseArgs", args |-> a] : a \in SeqsUpTo(ArgTexts, MaxArgs) }

FunctionInputs ==
    ValidateRowInputs \cup AddTimestampsInputs \cup ProcessTagsInputs
    \cup ConstructorInputs \cup ParseArgsInputs

InitFunctions ==
    /\ call \in FunctionInputs
    /\ rows = <<>>
    /\ unreadUntagged = FALSE
    /\ pc = "idle"
    /\ index = 0
    /\ stats = initializeStats
    /\ cur = NoLocals
    /\ uuidCount = 0
    /\ returned = <<>>
    /\ thrown = <<>>
    /\ log = <<>>
    /\ progress = <<>>
    /\ trace = <<>>
    /\ results = <<>>
    /\ probes = <<>>
    /\ requests = <<>>
    /\ req = NoRequest
    /\ runs = NoRuns

Applied == "out" \in DOMAIN call

Returns(out) ==
    /\ ~Applied
    /\ call' = call @@ [out |-> out]
    /\ UNCHANGED <<rows, unreadUntagged, pc, index, stats, cur, uuidCount, returned,
                   thrown, log, progress, trace, results, probes, requests, req, runs>>

ApplyValidateRow ==
    /\ call.fn = "validateRow"
    /\ Returns(validateRow(call.rowNum, call.rowData))

ApplyAddTimestamps ==
    /\ call.fn = "addTimestampsToParams"
    /\ Returns(addTimestampsToParams(call.saveParams, call.timeAdded))

ApplyProcessTags ==
    /\ call.fn = "processTags"
    /\ Returns(processTags(call.tagsString))

ApplyConstructor ==
    /\ call.fn = "constructor"
    /\ Returns(constructor(call.options))

ApplyParseArgs ==
    /\ call.fn = "parseArgs"
    /\ Returns(parseArgs(call.args))

NextFunctions ==
    \/ ApplyValidateRow
    \/ ApplyAddTimestamps
    \/ ApplyProcessTags
    \/ ApplyConstructor
    \/ ApplyParseArgs

SpecFunctions == InitFunctions /\ [][NextFunctions]_vars

-----------------------------------------------------------------------------
(* One call of checkUrlAlive, event by event.  req holds the url, the state *)
(* of the request, the promise (<<>> while pending), the events delivered   *)
(* to the handlers and the values the handlers passed to resolve.           *)

\* the urls validateRow returns
ProbeUrls == {u \in UrlTexts : u # <<>> /\ UrlParses(u)}

ResponseCodes == {199, 200, 399, 400, 404}

ResponseEvents ==
    { [kind |-> "response", statusCode |-> c, code |-> "", message |-> ""] :
        c \in ResponseCodes }

ErrorEvents ==
    { [kind |-> "error", statusCode |-> 0, code |-> "ENOTFOUND",
       message |-> "getaddrinfo ENOTFOUND"],
      [kind |-> "error", statusCode |-> 0, code |-> "", message |-> "socket hang up"] }

TimeoutEvent ==
    [kind |-> "timeout", statusCode |-> 0, code |-> "", message |-> ""]

InitProbe ==
    /\ req \in { [state |-> "called", url |-> u, promise |-> <<>>, events |-> <<>>,
                  resolves |-> <<>>] : u \in ProbeUrls }
    /\ call = NoCall
    /\ runs = NoRuns
    /\ rows = <<>>
    /\ unreadUntagged = FALSE
    /\ pc = "idle"
    /\ index = 0
    /\ stats = initializeStats
    /\ cur = NoLocals
    /\ uuidCount = 0
    /\ returned = <<>>
    /\ thrown = <<>>
    /\ log = <<>>
    /\ progress = <<>>
    /\ trace = <<>>
    /\ results = <<>>
    /\ probes = <<>>
    /\ requests = <<>>

ProbeUnchanged ==
    UNCHANGED <<rows, unreadUntagged, pc, index, stats, cur, uuidCount, returned,
                thrown, log, progress, trace, results, probes, requests, call, runs>>

\* mutant: every call of resolve replaces the value of the promise
SettleLast(promise, value) == <<[kind |-> "resolved", value |-> value]>>

\* resolve(value): a promise is settled by the first call only
Settle(promise, value) ==
    IF promise = <<>> THEN <<[kind |-> "resolved", value |-> value]>> ELSE promise

\* a handler of the request runs for event ev and calls resolve
Handle(ev, state) ==
    /\ req' = [req EXCEPT !.state = state,
                          !.events = Append(@, ev),
                          !.resolves = Append(@, checkUrlAlive(ev)),
                          !.promise = Settle(@, checkUrlAlive(ev))]
    /\ ProbeUnchanged

\* the executor of the promise, up to req.end(); a throw of
\* httpModule.request rejects the promise
ProbeExecutor ==
    /\ req.state = "called"
    /\ IF RequestThrows(req.url)
       THEN req' = [req EXCEPT !.state = "closed",
                               !.promise = <<[kind |-> "rejected",
                                              message |-> UnescapedCharacters]>>]
       ELSE req' = [req EXCEPT !.state = "sent"]
    /\ ProbeUnchanged

\* the response callback
OnResponse(ev) ==
    /\ req.state = "sent"
    /\ \A i \in 1..Len(req.events) : req.events[i].kind # "response"
    /\ Handle(ev, "sent")

\* req.on('error'): the connection failed, or the request was destroyed
OnError(ev) ==
    /\ req.state \in {"sent", "destroyed"}
    /\ Handle(ev, "closed")

\* req.on('timeout'): req.destroy(), then resolve
OnTimeout ==
    /\ req.state = "sent"
    /\ Handle(TimeoutEvent, "destroyed")

NextProbe ==
    \/ ProbeExecutor
    \/ \E ev \in ResponseEvents : OnResponse(ev)
    \/ \E ev \in ErrorEvents : OnError(ev)
    \/ OnTimeout

SpecProbe == InitProbe /\ [][NextProbe]_vars

-----------------------------------------------------------------------------------------------------------------------------------------------------
(* The monolithic script (import-pocket-to-omnivore.js) and the importer     *)
(* without URL checking (src/importer.js), run over the same rows with the   *)
(* same option and the same answers of the save operation.  An iteration of  *)
(* the loop over the rows is one step of a run.                              *)

HexChars == DigitChars \cup {"a", "b", "c", "d", "e", "f", "A", "B", "C", "D", "E", "F"}

HexValue(c) ==
    IF c \in DigitChars THEN DigitValue(c)
    ELSE IF c \in {"a", "A"} THEN 10
    ELSE IF c \in {"b", "B"} THEN 11
    ELSE IF c \in {"c", "C"} THEN 12
    ELSE IF c \in {"d", "D"} THEN 13
    ELSE IF c \in {"e", "E"} THEN 14
    ELSE 15

RECURSIVE LeadingHexDigits(_)
LeadingHexDigits(s) ==
    IF s # <<>> /\ Head(s) \in HexChars
    THEN <<Head(s)>> \o LeadingHexDigits(Tail(s))
    ELSE <<>>

\* the decimal digits of ds * m + a, for decimal digits ds
RECURSIVE MulAdd(_, _, _)
MulAdd(ds, m, a) ==
    IF ds = <<>>
    THEN IF a = 0 THEN <<>> ELSE MulAdd(<<>>, m, a \div 10) \o <<ToString(a % 10)>>
    ELSE LET x == DigitValue(ds[Len(ds)]) * m + a
         IN  MulAdd(SubSeq(ds, 1, Len(ds) - 1), m, x \div 10) \o <<ToString(x % 10)>>

\* the decimal digits of the number with hexadecimal digits hs, after acc
RECURSIVE HexToDecimal(_, _)
HexToDecimal(hs, acc) ==
    IF hs = <<>> THEN (IF acc = <<>> THEN <<"0">> ELSE acc)
    ELSE HexToDecimal(Tail(hs), MulAdd(acc, 16, HexValue(Head(hs))))

\* parseInt(s) without a radix: radix 16 after a prefix 0x or 0X, else 10
parseIntAuto(s) ==
    LET t == TrimStart(s)
        body == IF t # <<>> /\ Head(t) \in {"-", "+"} THEN Tail(t) ELSE t
        hex == Len(body) >= 2 /\ body[1] = "0" /\ body[2] \in {"x", "X"}
        hs == LeadingHexDigits(SubSeq(body, 3, Len(body)))
    IN  IF ~hex THEN parseInt10(s)
        ELSE IF hs = <<>> THEN [nan |-> TRUE, neg |-> FALSE, digits |-> <<>>]
        ELSE [nan |-> FALSE, neg |-> t # <<>> /\ Head(t) = "-",
              digits |-> HexToDecimal(hs, <<>>)]

\* the catch of processRow, in both programs
RowError(rowNum, error) ==
    IF error.isOmnivoreError
    THEN IF error.code = "GraphQLError"
         THEN RowPrefix(rowNum) \o <<"GraphQL error: ">> \o error.message
         ELSE IF error.code = "NetworkError"
         THEN RowPrefix(rowNum) \o <<"Network error: ">> \o error.message
         ELSE RowPrefix(rowNum) \o <<"Omnivore error: ">> \o error.message
    ELSE RowPrefix(rowNum) \o <<"Unexpected error - ">> \o error.message

RangeError == [ok |-> FALSE, isOmnivoreError |-> FALSE, code |-> "",
               message |-> <<"Invalid time value">>]

\* the end of the try of processRow, in both programs: the save and the
\* result, or the catch.  built is the request, or the RangeError of
\* toISOString.
SaveAndReturn(rowNum, built, out, title, url, labels, status) ==
    IF ~built.ok
    THEN [ok |-> FALSE, sent |-> <<>>, message |-> RowError(rowNum, RangeError)]
    ELSE IF ~out.ok
    THEN [ok |-> FALSE, sent |-> <<[row |-> rowNum, params |-> built.value]>>,
          message |-> RowError(rowNum, out)]
    ELSE [ok |-> TRUE, sent |-> <<[row |-> rowNum, params |-> built.value]>>,
          result |-> [success |-> TRUE, id |-> "item", title |-> title, url |-> url,
                      hasLabels |-> Len(labels) > 0,
                      isArchived |-> ("state" \in DOMAIN built.value
                                      /\ built.value.state = "ARCHIVED"),
                      wasArchivedInPocket |-> (status = Str_archive)]]

\* processRow of the monolithic script
monolithProcessRow(rowNum, rowData, out, uuid) ==
    LET title == Trim(FieldOrEmpty(rowData, "title"))
        url == Trim(FieldOrEmpty(rowData, "url"))
        timeAdded == Trim(FieldOrEmpty(rowData, "time_added"))
        tags == Trim(FieldOrEmpty(rowData, "tags"))
        status == Trim(FieldOrEmpty(rowData, "status"))
        hasTags == tags # <<>> /\ ~AllDigits(tags)
        labels == IF hasTags
                  THEN ToLabels(SelectNonEmpty(TrimEach(Split(tags, "|"))))
                  ELSE <<>>
        base == [url |-> url, clientRequestId |-> uuid, source |-> "api",
                 timezone |-> "UTC", locale |-> "en-US"]
        labelled == IF Len(labels) > 0 THEN base @@ [labels |-> labels] ELSE base
        shouldArchive ==
            IF status = Str_archive
            THEN IF unreadUntagged THEN hasTags /\ Len(labels) > 0 ELSE TRUE
            ELSE FALSE
        stated == IF shouldArchive THEN labelled @@ [state |-> "ARCHIVED"] ELSE labelled
        built == IF timeAdded # <<>> /\ ~parseIntAuto(timeAdded).nan
                 THEN WithTimestamp(stated, TimesThousand(parseIntAuto(timeAdded)))
                 ELSE [ok |-> TRUE, value |-> stated]
    IN  IF url = <<>>
        THEN [ok |-> FALSE, sent |-> <<>>,
              message |-> RowPrefix(rowNum) \o <<"Empty URL found">>]
        ELSE SaveAndReturn(rowNum, built, out, title, url, labels, status)

\* shouldArchiveArticle of the importer without URL checking
importerShouldArchiveArticle(status, hasTags) ==
    IF status # Str_archive THEN FALSE
    ELSE IF unreadUntagged THEN hasTags
    ELSE TRUE

\* processRow of the importer without URL checking
importerProcessRow(rowNum, rowData, out, uuid) ==
    LET v == validateRow(rowNum, rowData)
        r == v.value
        labels == processTags(r.tags)
        hasTags == Len(labels) > 0
        base == [url |-> r.url, clientRequestId |-> uuid, source |-> "api",
                 timezone |-> "UTC", locale |-> "en-US"]
        labelled == IF Len(labels) > 0 THEN base @@ [labels |-> labels] ELSE base
        shouldArchive == importerShouldArchiveArticle(r.status, hasTags)
        stated == IF shouldArchive THEN labelled @@ [state |-> "ARCHIVED"] ELSE labelled
        built == IF r.timeAdded # <<>> /\ ~parseInt10(r.timeAdded).nan
                 THEN WithTimestamp(stated, TimesThousand(parseInt10(r.timeAdded)))
                 ELSE [ok |-> TRUE, value |-> stated]
    IN  IF ~v.ok
        THEN [ok |-> FALSE, sent |-> <<>>, message |-> v.message]
        ELSE SaveAndReturn(rowNum, built, out, r.title, r.url, labels, r.status)

\* the counters of the monolithic script at the start of importFromCsv
monolithStart ==
    [pc |-> "loop", index |-> 0, successCount |-> 0, totalCount |-> 0,
     archivedCount |-> 0, taggedCount |-> 0, skippedArchiveCount |-> 0,
     sent |-> <<>>, results |-> <<>>, returned |-> <<>>, thrown |-> <<>>]

\* initializeStats of the importer without URL checking, at the start of
\* processAllRows
importerStart ==
    [pc |-> "loop", index |-> 0,
     stats |-> [total |-> 0, successful |-> 0, tagged |-> 0, archived |-> 0,
                skippedArchive |-> 0],
     sent |-> <<>>, results |-> <<>>, returned |-> <<>>, thrown |-> <<>>]

\* updateStats of the importer without URL checking
importerUpdateStats(st, result) ==
    IF result.success
    THEN [st EXCEPT !.total = @ + 1,
                    !.successful = @ + 1,
                    !.tagged = @ + Bump(result.hasLabels),
                    !.archived = @ + Bump(result.isArchived),
                    !.skippedArchive =
                        @ + Bump(result.wasArchivedInPocket /\ ~result.isArchived)]
    ELSE [st EXCEPT !.total = @ + 1]

\* an iteration of the loop of importFromCsv of the monolithic script
monolithIteration(m, out) ==
    LET rowNum == m.index + 1
        r == monolithProcessRow(rowNum, rows[rowNum], out, Len(m.sent) + 1)
    IN  IF r.ok /\ r.result.success
        THEN [m EXCEPT !.index = @ + 1,
                       !.totalCount = @ + 1,
                       !.successCount = @ + 1,
                       !.taggedCount = @ + Bump(r.result.hasLabels),
                       !.archivedCount = @ + Bump(r.result.isArchived),
                       !.skippedArchiveCount =
                           @ + Bump(r.result.wasArchivedInPocket /\ ~r.result.isArchived),
                       !.sent = @ \o r.sent,
                       !.results = Append(@, r.result)]
        ELSE [m EXCEPT !.pc = "failed",
                       !.totalCount = @ + 1,
                       !.sent = @ \o r.sent,
                       !.thrown = <<IF r.ok
                                    THEN <<"Failed to process row ", ToString(rowNum)>>
                                    ELSE r.message>>]

\* an iteration of the loop of processAllRows of the importer without URL
\* checking
importerIteration(m, out) ==
    LET rowNum == m.index + 1
        r == importerProcessRow(rowNum, rows[rowNum], out, Len(m.sent) + 1)
    IN  IF r.ok
        THEN [m EXCEPT !.index = @ + 1,
                       !.stats = importerUpdateStats(@, r.result),
                       !.sent = @ \o r.sent,
                       !.results = Append(@, r.result)]
        ELSE [m EXCEPT !.pc = "failed",
                       !.sent = @ \o r.sent,
                       !.thrown = <<r.message>>]

Url_d == <<"h", "t", "t", "p", "s", ":", "/", "/", "d", ".", "e", "/", "f">>

\* a row whose tags hold no tag
RowSeparatorsOnly ==
    [title |-> <<"H">>, url |-> Url_d, tags |-> <<"|", " ", "|">>,
     time_added |-> <<"0">>, status |-> Str_archive]

\* a row whose time_added is written in hexadecimal
RowHexTime ==
    [title |-> <<"I">>, url |-> Url_d, tags |-> <<"x">>,
     time_added |-> <<"0", "x", "F", "F", "F", "F", "F", "F", "F", "F", "F",
                      "F", "F">>,
     status |-> Str_archive]

\* rows whose url is not empty and parses
ComparedRows ==
    {RowTaggedUnread, RowUntaggedArchive, RowTaggedArchive, RowHugeTime,
     RowSeparatorsOnly, RowHexTime}

\* the answers of the save operation: the item, or a failure
ComparedOutcomes == {out \in SaveOutcomes : out.ok \/ out.code = "NetworkError"}

InitCompare ==
    /\ rows \in SeqsUpTo(ComparedRows, MaxCompared)
    /\ unreadUntagged \in BOOLEAN
    /\ runs \in { [outcomes |-> o, monolith |-> monolithStart,
                   importer |-> importerStart] :
                  o \in SeqsUpTo(ComparedOutcomes, MaxCompared) }
    /\ Len(runs.outcomes) = Len(rows)
    /\ pc = "idle"
    /\ index = 0
    /\ stats = initializeStats
    /\ cur = NoLocals
    /\ uuidCount = 0
    /\ returned = <<>>
    /\ thrown = <<>>
    /\ log = <<>>
    /\ progress = <<>>
    /\ trace = <<>>
    /\ results = <<>>
    /\ probes = <<>>
    /\ requests = <<>>
    /\ call = NoCall
    /\ req = NoRequest

CompareUnchanged ==
    UNCHANGED <<rows, unreadUntagged, pc, index, stats, cur, uuidCount, returned,
                thrown, log, progress, trace, results, probes, requests, call, req>>

MonolithRow ==
    /\ runs.monolith.pc = "loop"
    /\ runs.monolith.index < Len(rows)
    /\ runs' = [runs EXCEPT !.monolith =
                   monolithIteration(@, runs.outcomes[runs.monolith.index + 1])]
    /\ CompareUnchanged

\* the end of importFromCsv of the monolithic script
MonolithReturn ==
    /\ runs.monolith.pc = "loop"
    /\ runs.monolith.index = Len(rows)
    /\ runs' = [runs EXCEPT !.monolith.pc = "completed",
                            !.monolith.returned =
                                <<[total |-> runs.monolith.totalCount,
                                   successful |-> runs.monolith.successCount,
                                   tagged |-> runs.monolith.taggedCount,
                                   archived |-> runs.monolith.archivedCount,
                                   skippedArchive |-> runs.monolith.skippedArchiveCount]>>]
    /\ CompareUnchanged

ImporterRow ==
    /\ runs.importer.pc = "loop"
    /\ runs.importer.index < Len(rows)
    /\ runs' = [runs EXCEPT !.importer =
                   importerIteration(@, runs.outcomes[runs.importer.index + 1])]
    /\ CompareUnchanged

\* the end of importFromCsv of the importer without URL checking
ImporterReturn ==
    /\ runs.importer.pc = "loop"
    /\ runs.importer.index = Len(rows)
    /\ runs' = [runs EXCEPT !.importer.pc = "completed",
                            !.importer.returned = <<runs.importer.stats>>]
    /\ CompareUnchanged

NextCompare ==
    \/ MonolithRow
    \/ MonolithReturn
    \/ ImporterRow
    \/ ImporterReturn

SpecCompare == InitCompare /\ [][NextCompare]_vars

-----
(* Properties *)

Positions == 1..Len(trace)

Happened(op, rowNum) == \E p \in Positions : trace[p] = Ev(op, rowNum)

CountOp(op) == Cardinality({p \in Positions : trace[p].op = op})

\* the row at which the run failed (pc = "failed")
FailedRow == trace[Len(trace)].row

ValidationFails(k) == ~validateRow(k, rows[k]).ok

\* C1: fail-fast.  When row k fails validation ("invalid") or its save call
\* fails ("saveFailed"), the error is thrown at once and the run is Failed for
\* good: the throw is the last operation of the run, so no row after k is
\* validated, probed or saved, no pacing delay follows row k, and no
\* statistics are returned.
C1_FailFast ==
    /\ \A p \in Positions :
          trace[p].op \in {"invalid", "saveFailed"}
          => (p < Len(trace) /\ trace[p + 1] = Ev("throw", trace[p].row))
    /\ \A p \in Positions :
          trace[p].op = "throw" =>
             /\ p = Len(trace)
             /\ pc = "failed"
             /\ returned = <<>>
             /\ Len(thrown) = 1
             /\ \A q \in Positions :
                   /\ trace[q].row <= trace[p].row
                   /\ (trace[q].op \in {"delay", "delayDone"}
                       => trace[q].row < trace[p].row)
    /\ pc = "failed" => trace # <<>> /\ trace[Len(trace)].op = "throw"

C1_Witness ==
    /\ pc = "failed"
    /\ FailedRow = 2
    /\ Len(rows) > 2
    /\ Happened("saveFailed", 2)

\* C2: a dead URL is a soft failure of its row.  For every row whose probe
\* resolved with isAlive false, processRow returned a Skipped result whose
\* reason is "Dead URL: " followed by the probe's reason, the save operation
\* was not invoked for the row, nothing was thrown for it, and the run goes on
\* to the next row (or to completion after the last row).
C2_DeadUrlSkipped ==
    \A i \in 1..Len(probes) :
       ~probes[i].isAlive =>
          /\ Len(results) >= i
          /\ results[i].success = FALSE
          /\ "skipped" \in DOMAIN results[i] /\ results[i].skipped = TRUE
          /\ results[i].reason = <<"Dead URL: ">> \o probes[i].reason
          /\ ~Happened("save", i)
          /\ \A q \in 1..Len(requests) : requests[q].row # i
          /\ ~Happened("throw", i)
          /\ IF i < Len(rows)
             THEN \/ pc = "delay" /\ index = i - 1
                  \/ pc = "loop" /\ index = i
                  \/ Happened("validate", i + 1)
             ELSE \/ pc = "loop" /\ index = i
                  \/ pc = "completed"

C2_Witness ==
    /\ Len(probes) >= 2
    /\ ~probes[1].isAlive
    /\ probes[1].reason = <<"HTTP ", "404">>
    /\ Happened("saveDone", 2)

\* what the raw row i holds, read as the claims speak of it
RowStatus(i) == Trim(FieldOrEmpty(rows[i], "status"))
RowProducesLabels(i) == processTags(Trim(FieldOrEmpty(rows[i], "tags"))) # <<>>

\* a step in which a probe resolved dead / a save returned
DeadProbeStep ==
    /\ Len(probes') = Len(probes) + 1
    /\ ~probes'[Len(probes')].isAlive

SaveReturnedStep ==
    /\ pc = "save"
    /\ Len(results') = Len(results) + 1

\* C3: a skipped (dead URL) row adds one to total and one to skipped and
\* leaves successful, tagged, archived and skippedArchive as they were,
\* whatever the tags and the status of the row and whatever the archiving mode.
C3_SkippedRowStats ==
    [][DeadProbeStep =>
          stats' = [stats EXCEPT !.total = @ + 1, !.skipped = @ + 1]]_vars

C3_Witness ==
    /\ unreadUntagged
    /\ Len(results) >= 2
    /\ ~probes[2].isAlive
    /\ RowStatus(2) = Str_archive
    /\ RowProducesLabels(2)
    /\ stats.skipped = 1

\* C4: a successfully saved row adds one to total and to successful, one to
\* tagged iff the row produced a label, one to archived iff its save request
\* carried state ARCHIVED, one to skippedArchive iff the row's status is
\* "archive" and the request was not archived; skipped does not change.
C4_SavedRowStats ==
    [][SaveReturnedStep =>
          LET i == Len(results')
              params == requests[Len(requests)].params
              archived == "state" \in DOMAIN params /\ params.state = "ARCHIVED"
          IN  /\ requests[Len(requests)].row = i
              /\ stats' = [total |-> stats.total + 1,
                           successful |-> stats.successful + 1,
                           skipped |-> stats.skipped,
                           tagged |-> stats.tagged
                                      + (IF RowProducesLabels(i) THEN 1 ELSE 0),
                           archived |-> stats.archived + (IF archived THEN 1 ELSE 0),
                           skippedArchive |-> stats.skippedArchive
                               + (IF RowStatus(i) = Str_archive /\ ~archived
                                  THEN 1 ELSE 0)]]_vars

C4_Witness ==
    /\ unreadUntagged
    /\ Len(results) >= 2
    /\ results[1].success /\ results[2].success
    /\ stats.skippedArchive = 1
    /\ stats.archived = 1
    /\ stats.tagged = 1

\* C5: the truth table of shouldArchiveArticle, read at each call of it (the
\* locals of processRow at the await of the save): a status other than
\* "archive" gives false in both modes; "archive" with unreadUntagged off
\* gives true for both hasTags values; "archive" with unreadUntagged on gives
\* true iff hasTags.
C5_ArchiveTruthTable ==
    pc = "save" =>
       /\ (cur.row.status # Str_archive => cur.shouldArchive = FALSE)
       /\ (cur.row.status = Str_archive /\ ~unreadUntagged
              => cur.shouldArchive = TRUE)
       /\ (cur.row.status = Str_archive /\ unreadUntagged
              => cur.shouldArchive = cur.hasTags)

C5_Witness ==
    /\ pc = "save"
    /\ unreadUntagged
    /\ cur.row.status = Str_archive
    /\ ~cur.hasTags
    /\ cur.shouldArchive = FALSE

\* the statistics of a completed run over rows 1..m, counted from what
\* happened to each row
RowSaved(i) == Happened("saveDone", i)
RowArchived(i) ==
    \E q \in 1..Len(requests) :
       /\ requests[q].row = i
       /\ "state" \in DOMAIN requests[q].params
       /\ requests[q].params.state = "ARCHIVED"

StatsOfPrefix(m) ==
    [total |-> m,
     successful |-> Cardinality({i \in 1..m : RowSaved(i)}),
     skipped |-> Cardinality({i \in 1..m : ~probes[i].isAlive}),
     tagged |-> Cardinality({i \in 1..m : RowSaved(i) /\ RowProducesLabels(i)}),
     archived |-> Cardinality({i \in 1..m : RowSaved(i) /\ RowArchived(i)}),
     skippedArchive |->
         Cardinality({i \in 1..m : /\ RowSaved(i)
                                   /\ RowStatus(i) = Str_archive
                                   /\ ~RowArchived(i)})]

\* C6: rows are processed in input order (the j-th row whose processing
\* starts is row j), and when the run fails at row k the statistics are those
\* of a completed run over rows 1..k-1: total = k-1, the failing row counted
\* nowhere.
C6_PrefixStats ==
    /\ \A p \in Positions :
          trace[p].op = "validate" =>
             trace[p].row = 1 + Cardinality({q \in 1..(p - 1) : trace[q].op = "validate"})
    /\ pc = "failed" =>
          /\ stats.total = FailedRow - 1
          /\ Len(probes) >= FailedRow - 1
          /\ stats = StatsOfPrefix(FailedRow - 1)

C6_Witness ==
    /\ pc = "failed"
    /\ FailedRow = 3
    /\ stats.skipped = 1
    /\ stats.successful = 1

\* C7: when the import stops at row N the line "Progress before failure:
\* S/T articles imported successfully" reports T = N-1, the number of rows
\* processed before the failing row, and S = the number of those rows that
\* were imported successfully.
C7_ProgressBeforeFailure ==
    pc = "failed" =>
       log[Len(log)].text =
          <<"\nProgress before failure: ",
            ToString(Cardinality({i \in 1..(FailedRow - 1) : RowSaved(i)})),
            "/",
            ToString(FailedRow - 1),
            " articles imported successfully">>

\* what the code prints there: T = N-2
C7_CodePrintsTotalMinusOne ==
    pc = "failed" =>
       log[Len(log)].text =
          <<"\nProgress before failure: ",
            ToString(Cardinality({i \in 1..(FailedRow - 1) : RowSaved(i)})),
            "/",
            ToString(FailedRow - 2),
            " articles imported successfully">>

\* row k is fatal in the sense of C8: it fails validation, or it is alive and
\* its save fails
FatalRow(k) ==
    \/ ValidationFails(k)
    \/ /\ k <= Len(probes)
       /\ probes[k].isAlive
       /\ Happened("saveFailed", k)

\* C8: the error raised references the first row that fails validation or is
\* alive and whose save fails: its message begins "Row k: " for that row k,
\* and no earlier row (dead or not) is such a row.
C8_FirstFatalRow ==
    pc = "failed" =>
       \E k \in 1..Len(rows) :
          /\ FatalRow(k)
          /\ \A j \in 1..(k - 1) : ~FatalRow(j)
          /\ Len(thrown[1]) >= 3
          /\ SubSeq(thrown[1], 1, 3) = RowPrefix(k)
          /\ FailedRow = k

\* the same statement for the runs that do not end by a throw of the request
\* construction or of the probe
C8_FirstFatalRowUnlessBuildThrows ==
    pc = "failed" /\ trace[Len(trace) - 1].op \notin {"build", "probeRejected"} =>
       /\ FatalRow(FailedRow)
       /\ \A j \in 1..(FailedRow - 1) : ~FatalRow(j)
       /\ SubSeq(thrown[1], 1, 3) = RowPrefix(FailedRow)

\* C9: a completed run returns statistics with total = number of rows and
\* total = successful + skipped; for no rows every counter is 0 and the
\* probe, the save operation and the delay are never invoked.
C9_CompletedTotals ==
    pc = "completed" =>
       /\ returned = <<stats>>
       /\ thrown = <<>>
       /\ stats.total = Len(rows)
       /\ stats.total = stats.successful + stats.skipped
       /\ Len(rows) = 0 =>
             /\ stats = [total |-> 0, successful |-> 0, skipped |-> 0, tagged |-> 0,
                         archived |-> 0, skippedArchive |-> 0]
             /\ probes = <<>>
             /\ requests = <<>>
             /\ \A p \in Positions : trace[p].op \notin {"probe", "save", "delay"}

C9_Witness ==
    /\ pc = "completed"
    /\ Len(rows) = 3
    /\ stats.skipped = 1
    /\ stats.successful = 2

C9_WitnessEmpty ==
    /\ pc = "completed"
    /\ Len(rows) = 0
    /\ returned = <<initializeStats>>

\* C10: in a run over n rows that completes, the delay is taken exactly once
\* after each of rows 1..n-1 and never after row n (max(n-1, 0) delays), and
\* each delay starts right after the statistics update of its row and ends
\* right before the next row starts.
C10_Pacing ==
    /\ \A p \in Positions :
          trace[p].op = "delay" =>
             /\ trace[p].row < Len(rows)
             /\ p > 1 /\ trace[p - 1] = Ev("stats", trace[p].row)
             /\ p < Len(trace) => trace[p + 1] = Ev("delayDone", trace[p].row)
             /\ p + 1 < Len(trace) => trace[p + 2] = Ev("validate", trace[p].row + 1)
    /\ \A p \in Positions :
          trace[p].op = "validate" /\ trace[p].row > 1 =>
             /\ p > 2
             /\ trace[p - 1] = Ev("delayDone", trace[p].row - 1)
             /\ trace[p - 2] = Ev("delay", trace[p].row - 1)
    /\ pc = "completed" =>
          /\ CountOp("delay") = (IF Len(rows) > 0 THEN Len(rows) - 1 ELSE 0)
          /\ CountOp("delayDone") = CountOp("delay")
          /\ \A i \in 1..Len(rows) :
                Cardinality({p \in Positions : trace[p] = Ev("delay", i)})
                   = (IF i < Len(rows) THEN 1 ELSE 0)

C10_Witness ==
    /\ pc = "completed"
    /\ Len(rows) = 3
    /\ CountOp("delay") = 2
    /\ ~probes[1].isAlive
    /\ probes[2].isAlive

\* the positions of the trace at which operation op was performed
PositionsOf(op) == {p \in Positions : trace[p].op = op}

\* C11: no retries.  The save operation is invoked at most once per row; the
\* probe is invoked exactly once for each row that passed validation, never
\* for a row that failed validation and never after the fatal failure; every
\* invocation of save sends one request; and when the run has ended the
\* number of save invocations is the number of successful rows, plus one if
\* the run failed on a save.
C11_NoRetries ==
    LET saved == PositionsOf("save")
        probed == PositionsOf("probe")
        validated == {trace[p].row : p \in PositionsOf("validate")}
        invalid == {trace[p].row : p \in PositionsOf("invalid")}
    IN  /\ \A p, q \in saved : trace[p].row = trace[q].row => p = q
        /\ \A p, q \in probed : trace[p].row = trace[q].row => p = q
        /\ {trace[p].row : p \in probed} = validated \ invalid
        /\ \A p \in Positions : trace[p].op = "throw" => p = Len(trace)
        /\ Len(requests) = Cardinality(saved)
        /\ pc \in {"completed", "failed"} =>
              Cardinality(saved) =
                 stats.successful
                 + (IF pc = "failed" /\ trace[Len(trace) - 1].op = "saveFailed"
                    THEN 1 ELSE 0)

C11_Witness ==
    /\ pc = "failed"
    /\ Happened("saveFailed", 3)
    /\ stats.successful = 1
    /\ stats.skipped = 1

AllWhitespace(s) == \A i \in 1..Len(s) : IsWhitespace(s[i])

\* t is s without its leading and trailing whitespace
IsTrimOf(t, s) ==
    /\ t # <<>> => ~IsWhitespace(t[1]) /\ ~IsWhitespace(t[Len(t)])
    /\ \E i \in 0..Len(s) :
          /\ i + Len(t) <= Len(s)
          /\ SubSeq(s, i + 1, i + Len(t)) = t
          /\ AllWhitespace(SubSeq(s, 1, i))
          /\ AllWhitespace(SubSeq(s, i + Len(t) + 1, Len(s)))

TrimmedOf(s) ==
    CHOOSE t \in {SubSeq(s, i, j) : i \in 1..(Len(s) + 1), j \in 0..Len(s)} :
        IsTrimOf(t, s)

ValidateRowApplied == call.fn = "validateRow" /\ Applied

\* C12: validateRow(rowNum, rowData) either returns exactly the five fields
\* title, url, timeAdded, tags, status, each the trimmed input (a missing
\* input counts as empty), with a non-empty url that parses; or fails with
\* "Row <rowNum>: Empty URL found" when url is missing or empty after
\* trimming; or fails with a message that begins "Row <rowNum>: Invalid URL
\* format" when the trimmed url is non-empty and does not parse.
C12_ValidateRow ==
    ValidateRowApplied =>
       LET raw(f) == FieldOrEmpty(call.rowData, f)
           out == call.out
       IN  \/ /\ out.ok
              /\ DOMAIN out.value = {"title", "url", "timeAdded", "tags", "status"}
              /\ IsTrimOf(out.value.title, raw("title"))
              /\ IsTrimOf(out.value.url, raw("url"))
              /\ IsTrimOf(out.value.timeAdded, raw("time_added"))
              /\ IsTrimOf(out.value.tags, raw("tags"))
              /\ IsTrimOf(out.value.status, raw("status"))
              /\ out.value.url # <<>>
              /\ UrlParses(out.value.url)
           \/ /\ ~out.ok
              /\ AllWhitespace(raw("url"))
              /\ out.message = <<"Row ", ToString(call.rowNum), ": ", "Empty URL found">>
           \/ /\ ~out.ok
              /\ ~AllWhitespace(raw("url"))
              /\ ~UrlParses(TrimmedOf(raw("url")))
              /\ Len(out.message) >= 4
              /\ SubSeq(out.message, 1, 4) =
                    <<"Row ", ToString(call.rowNum), ": ", "Invalid URL format: ">>

C12_Witness ==
    /\ ValidateRowApplied
    /\ call.out.ok
    /\ "title" \notin DOMAIN call.rowData
    /\ "status" \in DOMAIN call.rowData
    /\ call.rowData.url # call.out.value.url
    /\ call.rowData.status # call.out.value.status

C12_WitnessEmptyUrl ==
    /\ ValidateRowApplied
    /\ ~call.out.ok
    /\ "url" \in DOMAIN call.rowData
    /\ call.rowData.url = <<" ", " ">>

\* the url has "//" and a non-empty host after its scheme
HasAuthority(url) ==
    LET rest == SubSeq(url, SchemeEnd(url) + 1, Len(url))
    IN  /\ Len(rest) >= 3
        /\ rest[1] = "/" /\ rest[2] = "/"
        /\ rest[3] \notin {"/", "?", "#"}

\* C13: validateRow fails with the Invalid URL format error for every
\* non-empty (trimmed) url that has no scheme or no authority part, so
\* "foo:bar" and "mailto:x" are rejected.
C13_RejectsUrlWithoutAuthority ==
    ValidateRowApplied /\ ~AllWhitespace(FieldOrEmpty(call.rowData, "url")) =>
       LET u == TrimmedOf(FieldOrEmpty(call.rowData, "url"))
       IN  (~HasScheme(u) \/ ~HasAuthority(u)) =>
              /\ ~call.out.ok
              /\ SubSeq(call.out.message, 1, 4) =
                    <<"Row ", ToString(call.rowNum), ": ", "Invalid URL format: ">>

\* what the code does instead: a url with a scheme that is not http or https
\* is accepted without an authority
C13_CodeAcceptsOpaqueUrl ==
    ValidateRowApplied /\ "url" \in DOMAIN call.rowData
    /\ call.rowData.url \in {<<"f", "o", "o", ":", "b", "a", "r">>,
                             <<"m", "a", "i", "l", "t", "o", ":", "x">>}
    => call.out.ok

\* shouldArchive of row i, from the raw row and the mode
ExpectedArchive(i) ==
    /\ RowStatus(i) = Str_archive
    /\ unreadUntagged => RowProducesLabels(i)

\* C14: every save request holds url (the validated url), clientRequestId,
\* source "api", timezone "UTC" and locale "en-US"; it holds labels iff the
\* label list of the row is non-empty (then that list); it holds state iff
\* shouldArchive is true, and then state is "ARCHIVED"; and the isArchived
\* flag of the row's result equals shouldArchive.
C14_SaveRequest ==
    /\ pc = "save" =>
          LET p == cur.saveParams
          IN  /\ requests[Len(requests)] = [row |-> cur.rowNum, params |-> p]
              /\ {"url", "clientRequestId", "source", "timezone", "locale"}
                    \subseteq DOMAIN p
              /\ DOMAIN p \subseteq
                    {"url", "clientRequestId", "source", "timezone", "locale",
                     "labels", "state", "savedAt", "publishedAt"}
              /\ p.url = Trim(FieldOrEmpty(rows[cur.rowNum], "url"))
              /\ p.clientRequestId = uuidCount
              /\ p.source = "api" /\ p.timezone = "UTC" /\ p.locale = "en-US"
              /\ "labels" \in DOMAIN p <=> cur.labels # <<>>
              /\ "labels" \in DOMAIN p => p.labels = cur.labels
              /\ "state" \in DOMAIN p <=> cur.shouldArchive
              /\ "state" \in DOMAIN p => p.state = "ARCHIVED"
              /\ cur.shouldArchive = ExpectedArchive(cur.rowNum)
    /\ \A q \in 1..Len(requests) :
          LET i == requests[q].row
          IN  /\ "labels" \in DOMAIN requests[q].params <=> RowProducesLabels(i)
              /\ "state" \in DOMAIN requests[q].params <=> ExpectedArchive(i)
              /\ Len(results) >= i =>
                    /\ results[i].success
                    /\ results[i].isArchived = ExpectedArchive(i)

C14_Witness ==
    /\ pc = "save"
    /\ ~cur.shouldArchive
    /\ "labels" \in DOMAIN cur.saveParams
    /\ Len(results) >= 1
    /\ results[1].success
    /\ results[1].isArchived
    /\ "labels" \notin DOMAIN requests[1].params

\* s is a base-10 integer: an optional sign, then digits and nothing else
IsIntegerString(s) ==
    AllDigits(IF s # <<>> /\ s[1] \in {"+", "-"} THEN Tail(s) ELSE s)

RECURSIVE TextToInt(_)
TextToInt(ds) ==
    IF ds = <<>> THEN 0
    ELSE TextToInt(SubSeq(ds, 1, Len(ds) - 1)) * 10 + DigitValue(ds[Len(ds)])

\* the integer a text denotes: an optional sign, then its leading digits
LeadingIntegerOf(s) ==
    LET body == IF s # <<>> /\ s[1] \in {"+", "-"} THEN Tail(s) ELSE s
        v == TextToInt(LeadingDigits(body))
    IN  IF s # <<>> /\ s[1] = "-" THEN 0 - v ELSE v

\* the day number of a date of the proleptic Gregorian calendar
DaysFromCivil(year, month, date) ==
    LET y == IF month <= 2 THEN year - 1 ELSE year
        era == y \div 400
        yoe == y - era * 400
        doy == ((153 * (IF month > 2 THEN month - 3 ELSE month + 9) + 2) \div 5)
               + date - 1
        doe == yoe * 365 + (yoe \div 4) - (yoe \div 100) + doy
    IN  era * 146097 + doe - 719468

\* the seconds since the epoch of a text YYYY-MM-DDTHH:MM:SS.mmmZ
EpochSecondsOf(iso) ==
    DaysFromCivil(TextToInt(SubSeq(iso, 1, 4)), TextToInt(SubSeq(iso, 6, 7)),
                  TextToInt(SubSeq(iso, 9, 10))) * 86400
    + TextToInt(SubSeq(iso, 12, 13)) * 3600
    + TextToInt(SubSeq(iso, 15, 16)) * 60
    + TextToInt(SubSeq(iso, 18, 19))

\* iso is the ISO-8601 text of n * 1000 ms since the epoch
IsInstantOfSeconds(iso, n) ==
    /\ Len(iso) = 24
    /\ iso[5] = "-" /\ iso[8] = "-" /\ iso[11] = "T" /\ iso[14] = ":"
    /\ iso[17] = ":" /\ iso[20] = "."
    /\ SubSeq(iso, 21, 24) = <<"0", "0", "0", "Z">>
    /\ EpochSecondsOf(iso) = n

AddTimestampsApplied == call.fn = "addTimestampsToParams" /\ Applied

\* C15: the request holds savedAt and publishedAt iff timeAdded is a base-10
\* integer string; when present both are the same ISO-8601 instant of
\* timeAdded * 1000 ms since the epoch; when timeAdded is empty or is not a
\* base-10 integer (digits followed by other characters, say) both are
\* absent.
C15_TimestampsIffInteger ==
    AddTimestampsApplied /\ call.out.ok =>
       LET v == call.out.value
           t == call.timeAdded
       IN  /\ "savedAt" \in DOMAIN v <=> IsIntegerString(t)
           /\ "publishedAt" \in DOMAIN v <=> IsIntegerString(t)
           /\ "savedAt" \in DOMAIN v /\ Len(t) <= 10 =>
                 /\ v.savedAt = v.publishedAt
                 /\ IsInstantOfSeconds(v.savedAt, LeadingIntegerOf(t))

\* what the code does instead: the fields are present iff timeAdded begins
\* (after an optional sign) with a digit, and hold the instant of that
\* leading integer
C15_CodeTimestampsIffLeadingDigits ==
    AddTimestampsApplied /\ call.out.ok =>
       LET v == call.out.value
           t == call.timeAdded
           body == IF t # <<>> /\ t[1] \in {"+", "-"} THEN Tail(t) ELSE t
       IN  /\ "savedAt" \in DOMAIN v <=> LeadingDigits(body) # <<>>
           /\ "publishedAt" \in DOMAIN v <=> LeadingDigits(body) # <<>>
           /\ "savedAt" \in DOMAIN v /\ Len(t) <= 10 =>
                 /\ v.savedAt = v.publishedAt
                 /\ IsInstantOfSeconds(v.savedAt, LeadingIntegerOf(t))
           /\ t = RowTaggedUnread.time_added =>
                 v.savedAt = <<"2", "0", "2", "1", "-", "0", "1", "-", "0", "1", "T",
                               "0", "0", ":", "0", "0", ":", "0", "0", ".", "0", "0",
                               "0", "Z">>

ProcessTagsApplied == call.fn = "processTags" /\ Applied

\* the positions of the separators of s, with its two ends
SeparatorsOf(s) == {0, Len(s) + 1} \cup {i \in 1..Len(s) : s[i] = "|"}

\* the segment of s that begins after separator a
SegmentAfter(s, a) ==
    LET b == CHOOSE x \in SeparatorsOf(s) :
                /\ x > a
                /\ \A y \in SeparatorsOf(s) : y > a => x <= y
    IN  SubSeq(s, a + 1, b - 1)

\* the separators after which a segment with a character other than
\* whitespace begins
KeptSegments(s) ==
    {a \in SeparatorsOf(s) \ {Len(s) + 1} : ~AllWhitespace(SegmentAfter(s, a))}

\* C16: processTags(s) returns the empty list when s is empty, only
\* whitespace, null or undefined, or consists of decimal digits only;
\* otherwise it returns one label for each '|'-separated segment that is not
\* empty after trimming, in order and without removing duplicates, each with
\* the trimmed segment as name, color "#EF8C43" and an empty description.
C16_ProcessTags ==
    ProcessTagsApplied =>
       LET s == call.tagsString
           out == call.out
       IN  IF s \in {Undefined, Null} \/ AllWhitespace(s) \/ AllDigits(s)
           THEN out = <<>>
           ELSE /\ Len(out) = Cardinality(KeptSegments(s))
                /\ \A a \in KeptSegments(s) :
                      out[Cardinality({x \in KeptSegments(s) : x <= a})] =
                         [name |-> TrimmedOf(SegmentAfter(s, a)),
                          color |-> <<"#", "E", "F", "8", "C", "4", "3">>,
                          description |-> <<>>]

C16_Witness ==
    /\ ProcessTagsApplied
    /\ Len(call.out) = 2
    /\ call.out[1] = call.out[2]
    /\ call.tagsString[Len(call.tagsString)] = " "

C16_WitnessDigits ==
    /\ ProcessTagsApplied
    /\ call.tagsString = <<"1", "1">>
    /\ call.out = <<>>

Probing == req.state # "none"

\* C17: checkUrlAlive classifies what the request delivers.  A response with
\* a status code in [200, 400) gives {isAlive: true, statusCode: code,
\* reason: "OK"}; a response with a code below 200 or of 400 and above gives
\* {isAlive: false, statusCode: code, reason: "HTTP <code>"}; a connection or
\* DNS error gives {isAlive: false, statusCode: null, reason: the code of the
\* error, or its message when it has no code}.
C17_ProbeClassification ==
    Probing =>
       /\ Len(req.resolves) = Len(req.events)
       /\ \A i \in 1..Len(req.events) :
             LET ev == req.events[i]
                 r == req.resolves[i]
             IN  /\ ev.kind = "response" /\ ev.statusCode >= 200
                       /\ ev.statusCode <= 399
                       => r = [isAlive |-> TRUE, statusCode |-> <<ev.statusCode>>,
                               reason |-> <<"OK">>]
                 /\ ev.kind = "response"
                       /\ (ev.statusCode <= 199 \/ ev.statusCode >= 400)
                       => r = [isAlive |-> FALSE, statusCode |-> <<ev.statusCode>>,
                               reason |-> <<"HTTP ", ToString(ev.statusCode)>>]
                 /\ ev.kind = "error" /\ ev.code # ""
                       => r = [isAlive |-> FALSE, statusCode |-> <<>>,
                               reason |-> <<ev.code>>]
                 /\ ev.kind = "error" /\ ev.code = ""
                       => r = [isAlive |-> FALSE, statusCode |-> <<>>,
                               reason |-> <<ev.message>>]
       /\ req.events # <<>> /\ req.events[1].kind # "timeout" =>
             req.promise = <<[kind |-> "resolved", value |-> req.resolves[1]]>>

C17_Witness ==
    /\ Probing
    /\ Len(req.events) = 2
    /\ req.events[1].kind = "response"
    /\ req.events[1].statusCode = 399
    /\ req.events[2].kind = "error"
    /\ req.events[2].code = ""

C17_WitnessBoundaries ==
    /\ Probing
    /\ req.events # <<>>
    /\ req.events[1].kind = "response"
    /\ req.events[1].statusCode = 200
    /\ req.promise # <<>>
    /\ req.promise[1].value.isAlive

TimeoutResult == [isAlive |-> FALSE, statusCode |-> <<>>, reason |-> <<"Timeout">>]

\* C18: when the timeout of the probe fires, the request is destroyed (no
\* response is delivered after it) and, if nothing settled the promise
\* before, the result is {isAlive: false, statusCode: null, reason:
\* "Timeout"}.  The promise settles once: its value is the one of the first
\* call of resolve, so an error event that follows the destruction of the
\* request, or a timeout or an error that follows a response, does not
\* change the result.
C18_TimeoutSettlesOnce ==
    Probing =>
       /\ \A i \in 1..Len(req.events) :
             req.events[i].kind = "timeout" =>
                /\ req.state \in {"destroyed", "closed"}
                /\ \A j \in (i + 1)..Len(req.events) :
                      req.events[j].kind = "error"
       /\ req.events # <<>> /\ req.events[1].kind = "timeout" =>
             req.promise = <<[kind |-> "resolved", value |-> TimeoutResult]>>
       /\ req.resolves # <<>> =>
             req.promise = <<[kind |-> "resolved", value |-> req.resolves[1]]>>
       /\ req.resolves = <<>> /\ req.promise # <<>> =>
             req.promise[1].kind = "rejected"

C18_Witness ==
    /\ Probing
    /\ Len(req.events) = 2
    /\ req.events[1].kind = "timeout"
    /\ req.events[2].kind = "error"
    /\ req.state = "closed"
    /\ req.promise = <<[kind |-> "resolved", value |-> TimeoutResult]>>

\* C19: checkUrlAlive never throws and never rejects for a url that
\* validateRow accepted: the promise, once settled, is resolved with a
\* result; and a run never fails by the probe.
C19_ProbeNeverRejects ==
    /\ Probing /\ req.promise # <<>> => req.promise[1].kind = "resolved"
    /\ pc = "failed" => trace[Len(trace) - 1].op # "probeRejected"

\* what the code does instead: the promise is rejected exactly for the urls
\* whose request path holds a space, which only a url with an opaque path has
C19_CodeRejectsUnescapedPath ==
    Probing /\ req.state # "called" =>
       (req.promise # <<>> /\ req.promise[1].kind = "rejected")
       <=> (HasOpaquePath(req.url) /\ \E i \in 1..Len(req.url) : req.url[i] = " ")

\* the run failed on the save of row FailedRow
FailedOnSave == pc = "failed" /\ trace[Len(trace) - 1].op = "saveFailed"

\* the failures of the save operation whose message the error thrown ends with
FailuresThrown ==
    {out \in SaveOutcomes :
        /\ ~out.ok
        /\ Len(thrown[1]) >= Len(out.message)
        /\ SubSeq(thrown[1], Len(thrown[1]) - Len(out.message) + 1, Len(thrown[1]))
              = out.message}

\* C20 as stated: every failure of the save operation is re-raised as "Row k: "
\* followed by one of exactly three prefixes, "GraphQL error: " for a GraphQL
\* failure, "Network error: " for a network failure and "Omnivore error: " for
\* every other kind of failure, followed by the message of the failure.
C20_ThreePrefixes ==
    FailedOnSave =>
       /\ FailuresThrown # {}
       /\ \A out \in FailuresThrown :
             thrown[1] =
                <<"Row ", ToString(FailedRow), ": ">>
                \o << IF out.isOmnivoreError /\ out.code = "GraphQLError"
                      THEN "GraphQL error: "
                      ELSE IF out.isOmnivoreError /\ out.code = "NetworkError"
                      THEN "Network error: "
                      ELSE "Omnivore error: " >>
                \o out.message

\* C20 amended: every failure of the save operation is re-raised as "Row k: "
\* followed by one of four prefixes and the message of the failure:
\* "GraphQL error: " for an OmnivoreError with code GraphQLError, "Network
\* error: " for one with code NetworkError, "Omnivore error: " for an
\* OmnivoreError with any other code, and "Unexpected error - " for a failure
\* that is no OmnivoreError.
C20_FourPrefixes ==
    FailedOnSave =>
       /\ FailuresThrown # {}
       /\ \A out \in FailuresThrown :
             thrown[1] =
                <<"Row ", ToString(FailedRow), ": ">>
                \o << IF ~out.isOmnivoreError THEN "Unexpected error - "
                      ELSE IF out.code = "GraphQLError" THEN "GraphQL error: "
                      ELSE IF out.code = "NetworkError" THEN "Network error: "
                      ELSE "Omnivore error: " >>
                \o out.message

C20_Witness ==
    /\ FailedOnSave
    /\ FailedRow = 2
    /\ thrown[1] = <<"Row ", "2", ": ", "Unexpected error - ", "boom">>

C20_WitnessOmnivore ==
    /\ FailedOnSave
    /\ thrown[1] = <<"Row ", "1", ": ", "Omnivore error: ", "unknown">>

\* the number of rows started so far
RowsStarted == Cardinality(PositionsOf("validate"))

C21_WitnessCompleted ==
    /\ pc = "completed"
    /\ Len(progress) = 3
    /\ progress[3].current = 2

ConstructorApplied == call.fn = "constructor" /\ Applied

\* C22: the importer uses the option values it is constructed with: a
\* supplied delayBetweenRequests or urlTimeout, 0 included, is the value of
\* this.options that pacing and probing read, and the defaults 200 and 10000
\* apply only when the option is not supplied.
C22_OptionsAsSupplied ==
    ConstructorApplied =>
       LET o == call.options
           out == call.out
       IN  /\ out.delayBetweenRequests =
                 IF "delayBetweenRequests" \in DOMAIN o THEN o.delayBetweenRequests
                 ELSE 200
           /\ out.urlTimeout =
                 IF "urlTimeout" \in DOMAIN o THEN o.urlTimeout ELSE 10000

\* what the code does instead: a supplied 0 is replaced by the default
C22_CodeReplacesZero ==
    ConstructorApplied =>
       LET o == call.options
           out == call.out
       IN  /\ out.delayBetweenRequests =
                 IF "delayBetweenRequests" \in DOMAIN o /\ o.delayBetweenRequests # 0
                 THEN o.delayBetweenRequests ELSE 200
           /\ out.urlTimeout =
                 IF "urlTimeout" \in DOMAIN o /\ o.urlTimeout # 0
                 THEN o.urlTimeout ELSE 10000
           /\ out.unreadUntagged =
                 ("unreadUntagged" \in DOMAIN o /\ o.unreadUntagged)

Completed == pc = "completed" /\ Len(returned) = 1 /\ thrown = <<>>

Failed == pc = "failed" /\ Len(thrown) = 1 /\ returned = <<>>

\* C23: if every probe call and every save call eventually returns or
\* fails, a run over a finite row sequence eventually reaches exactly one of
\* Completed (statistics returned) and Failed (error raised), and stays in
\* it for ever.
C23_Terminates ==
    /\ <>(Completed \/ Failed)
    /\ [][(Completed => Completed') /\ (Failed => Failed')]_vars
    /\ [](~(Completed /\ Failed))

C23_Witness ==
    /\ Completed
    /\ Len(rows) = 2
    /\ stats.successful = 1
    /\ stats.skipped = 1
    /\ CountOp("delayDone") = 1

C23_WitnessFailed ==
    /\ Failed
    /\ CountOp("delayDone") = 1
    /\ stats.total = 1

ParseArgsApplied == call.fn = "parseArgs" /\ Applied

HelpAmong(args) == \E i \in 1..Len(args) : args[i] \in {Arg_help, Arg_h}

\* C24: parseArgs shows the help text and exits with code 0 whenever --help
\* or -h is among the arguments, whatever the other arguments are and
\* wherever the flag stands.
C24_HelpWherever ==
    ParseArgsApplied /\ HelpAmong(call.args) =>
       call.out.help /\ call.out.exitCode = <<0>>

\* the first argument that ends the process: a help flag, an unknown option
\* or a second file
Ending(args, i) ==
    \/ args[i] \in {Arg_help, Arg_h}
    \/ StartsWithDashes(args[i]) /\ args[i] # Arg_unread_untagged
    \/ /\ ~StartsWithDashes(args[i])
       /\ \E j \in 1..(i - 1) : ~StartsWithDashes(args[j]) /\ args[j] \notin {Arg_help, Arg_h}

\* what the code does instead: help and exit code 0 exactly when a help flag
\* is the first argument that ends the process
C24_CodeHelpUnlessErrorFirst ==
    ParseArgsApplied =>
       ((call.out.help /\ call.out.exitCode = <<0>>) <=>
           \E i \in 1..Len(call.args) :
              /\ call.args[i] \in {Arg_help, Arg_h}
              /\ \A j \in 1..(i - 1) : ~Ending(call.args, j))

\* the step before position p of the trace is op of the same row
Preceded(p, op) == p > 1 /\ trace[p - 1] = Ev(op, trace[p].row)

ProbedAlive(p) == Preceded(p, "probeDone") /\ probes[trace[p].row].isAlive

ProbedDead(p) == Preceded(p, "probeDone") /\ ~probes[trace[p].row].isAlive

\* the steps of a row up to the save, and the rows one after the other: a
\* row starts at the beginning of the run or when the delay that follows the
\* statistics update of the row before it has elapsed
StepsInOrder(p) ==
    /\ trace[p].op = "validate" =>
          \/ p = 1 /\ trace[p].row = 1
          \/ /\ p > 3
             /\ trace[p - 1] = Ev("delayDone", trace[p].row - 1)
             /\ trace[p - 2] = Ev("delay", trace[p].row - 1)
             /\ trace[p - 3] = Ev("stats", trace[p].row - 1)
    /\ trace[p].op = "probe" =>
          Preceded(p, "validate") /\ ~ValidationFails(trace[p].row)
    /\ trace[p].op = "build" => ProbedAlive(p)
    /\ trace[p].op = "save" =>
          Preceded(p, "build") /\ ProbedAlive(p - 1)
    /\ p > 1 /\ trace[p].op # "return" => trace[p - 1].row <= trace[p].row

\* C25 as stated: within each row the steps occur in the order validate,
\* probe, build, save, statistics: the probe starts only after validation
\* succeeded, the save is invoked only after the probe of the row returned
\* isAlive = true, the statistics are updated only after the save returned,
\* and no step of row i+1 starts before the statistics update of row i and
\* the delay after it have finished.
C25_StatsOnlyAfterSave ==
    \A p \in Positions :
       /\ StepsInOrder(p)
       /\ trace[p].op = "stats" => Preceded(p, "saveDone")

\* C25, amended: the same order, where the statistics of a row are updated
\* after its save returned or, for a row that is skipped, after its probe
\* returned isAlive = false (no request is built and no save is invoked for
\* that row).
C25_StepOrder ==
    \A p \in Positions :
       /\ StepsInOrder(p)
       /\ trace[p].op = "stats" => Preceded(p, "saveDone") \/ ProbedDead(p)
       /\ trace[p].op = "saveDone" => Preceded(p, "save")

C25_Witness ==
    /\ pc = "completed"
    /\ CountOp("saveDone") = 2
    /\ CountOp("delayDone") = 2
    /\ \E p \in Positions : trace[p].op = "stats" /\ ProbedDead(p)

\* the rows that were saved and whose status is "archive"
SavedArchiveRows ==
    {i \in 1..Len(rows) : Happened("saveDone", i) /\ RowStatus(i) = Str_archive}

CountersRelated ==
    /\ stats.total = stats.successful + stats.skipped
    /\ stats.tagged <= stats.successful
    /\ stats.archived + stats.skippedArchive <= stats.successful
    /\ stats.archived + stats.skippedArchive = Cardinality(SavedArchiveRows)

\* a step decreases no counter, and total grows by the number of rows whose
\* processing ended in the step (0 or 1)
CountersGrow ==
    /\ \A f \in DOMAIN stats : stats'[f] >= stats[f]
    /\ stats'.total - stats.total = Len(results') - Len(results)
    /\ Len(results') - Len(results) \in {0, 1}

\* C26: in every reachable state total = successful + skipped, tagged <=
\* successful and archived + skippedArchive <= successful, where archived +
\* skippedArchive is the number of saved rows whose status is "archive";
\* no counter ever decreases and total grows by exactly one per processed
\* row.
C26_Counters ==
    /\ CountersRelated
    /\ [][CountersRelated' /\ CountersGrow]_vars

C26_Witness ==
    /\ pc = "completed"
    /\ stats.total = 3
    /\ stats.skipped = 1
    /\ stats.archived = 1
    /\ stats.skippedArchive = 1
    /\ stats.tagged = 1

\* C27: with unreadUntagged off, skippedArchive is 0 and archived is the
\* number of saved rows whose status is "archive"; with unreadUntagged on,
\* every archived row is a tagged row, so archived <= tagged.
C27_ArchivedByOption ==
    IF unreadUntagged
    THEN /\ stats.archived <= stats.tagged
         /\ \A i \in 1..Len(results) :
               results[i].isArchived => results[i].hasLabels
    ELSE /\ stats.skippedArchive = 0
         /\ stats.archived = Cardinality(SavedArchiveRows)

C27_Witness ==
    /\ ~unreadUntagged
    /\ pc = "completed"
    /\ stats.archived = 2
    /\ stats.tagged = 1

C27_WitnessEnabled ==
    /\ unreadUntagged
    /\ pc = "completed"
    /\ stats.archived = 1
    /\ stats.tagged = 2
    /\ stats.skippedArchive = 1

\* how many times the row prefix "Row k: " stands in message m
PrefixCount(m, k) ==
    Cardinality({p \in 1..(Len(m) - 2) : SubSeq(m, p, p + 2) = RowPrefix(k)})

BeginsWithPrefix(m, k) == Len(m) >= 3 /\ SubSeq(m, 1, 3) = RowPrefix(k)

FailedOnValidation == pc = "failed" /\ trace[Len(trace) - 1].op = "invalid"

\* C28: every fatal error raised by processRow carries the row prefix
\* "Row <rowNum>: " exactly once, at the start of its message, for a
\* validation failure and for a save failure.
C28_RowPrefixOnce ==
    Failed =>
       /\ BeginsWithPrefix(thrown[1], FailedRow)
       /\ PrefixCount(thrown[1], FailedRow) = 1

\* what the code does instead: the prefix stands once in front of the
\* message of a failure of the save, and twice in front of the message of a
\* failure of the validation
C28_CodePrefixTwiceOnValidation ==
    Failed =>
       /\ BeginsWithPrefix(thrown[1], FailedRow)
       /\ PrefixCount(thrown[1], FailedRow) = IF FailedOnValidation THEN 2 ELSE 1
       /\ FailedOnValidation =>
             thrown[1] = RowPrefix(FailedRow)
                         \o validateRow(FailedRow, rows[FailedRow]).message

FailedOnBuild == pc = "failed" /\ trace[Len(trace) - 1].op = "build"

\* C29: the value of timeAdded alone never makes a row fatal: for every
\* timeAdded, integer strings whose value times 1000 is beyond 8.64e15 ms
\* included, building the request sets both timestamps or neither and the
\* row goes on to the save operation.
C29_TimeAddedNeverFatal ==
    /\ ~FailedOnBuild
    /\ \A p \in Positions : trace[p].op = "build" =>
          p < Len(trace) /\ trace[p + 1] = Ev("save", trace[p].row)

\* what the code does instead: building the request fails exactly for a
\* timeAdded whose leading integer times 1000 is no valid time value, with
\* the message of the RangeError
C29_CodeFatalBeyondRange ==
    /\ FailedOnBuild =>
          /\ ~ValidTimeValue(TimesThousand(parseInt10(
                  Trim(FieldOrEmpty(rows[FailedRow], "time_added")))))
          /\ thrown[1] = RowPrefix(FailedRow) \o <<"Invalid time value">>
    /\ \A i \in 1..Len(requests) :
          LET t == parseInt10(Trim(FieldOrEmpty(rows[requests[i].row], "time_added")))
          IN  t.nan \/ ValidTimeValue(TimesThousand(t))

BothEnded ==
    /\ runs.monolith.pc \in {"completed", "failed"}
    /\ runs.importer.pc \in {"completed", "failed"}

\* what a request tells the save operation about labels and archive state
LabelsAndState(sent) ==
    [row |-> sent.row,
     labels |-> IF "labels" \in DOMAIN sent.params THEN sent.params.labels ELSE <<>>,
     archived |-> "state" \in DOMAIN sent.params]

Flags(result) ==
    [hasLabels |-> result.hasLabels, isArchived |-> result.isArchived,
     wasArchivedInPocket |-> result.wasArchivedInPocket]

SameRequestsAndResults ==
    /\ Len(runs.monolith.sent) = Len(runs.importer.sent)
    /\ \A i \in 1..Len(runs.monolith.sent) :
          LabelsAndState(runs.monolith.sent[i]) = LabelsAndState(runs.importer.sent[i])
    /\ Len(runs.monolith.results) = Len(runs.importer.results)
    /\ \A i \in 1..Len(runs.monolith.results) :
          Flags(runs.monolith.results[i]) = Flags(runs.importer.results[i])
    /\ runs.monolith.returned = runs.importer.returned

\* C30: on rows whose urls are not empty and parse, the monolithic script
\* and the importer without URL checking send the same labels and the same
\* archive state for each row, return the same hasLabels, isArchived and
\* wasArchivedInPocket, and on completion return the same total, successful,
\* tagged, archived and skippedArchive.
C30_Equivalent == BothEnded => SameRequestsAndResults

\* a row whose time_added the two programs read differently: parseInt
\* without a radix reads a number after 0x, parseInt with radix 10 reads 0
ReadsHex(i) ==
    LET t == Trim(FieldOrEmpty(rows[i], "time_added"))
    IN  ~parseIntAuto(t).nan /\ parseIntAuto(t) # parseInt10(t)

\* what the code does instead: the two runs agree unless the time_added of a
\* row is hexadecimal and beyond the range of a Date
C30_CodeEquivalentUnlessHexTime ==
    BothEnded /\ ~(\E i \in 1..Len(rows) : ReadsHex(i)) => SameRequestsAndResults

====
